---- MODULE Spec2Model ----
(***************************************************************************)
(* A model of the digital twin of a 400/220 kV substation:                 *)
(*   - src/src/simulation/opendss_anomaly_simulator.py : the anomaly       *)
(*     injector that drives the OpenDSS engine (SpecInject) and its named  *)
(*     scenarios (SpecScenario)                                            *)
(*   - src/src/models/ai_ml_models.py : detector, predictor, optimizer and *)
(*     their manager (SpecOnline, SpecPredict)                             *)
(*   - src/src/backend_server.py : startup, the telemetry-ingestion task   *)
(*     and an analysis task on the same event loop (SpecBackend)           *)
(*   - src/src/models/asset_models.py : asset health, telemetry updates    *)
(*     and alarms (SpecHealth, SpecAssets)                                 *)
(*   - the severity rule of detect_anomalies (SpecSeverity) and            *)
(*     optimize_maintenance_schedule (SpecSchedule)                        *)
(*   - thermal stress and mechanical wear (SpecWear), what a model is      *)
(*     fitted on and handed when scoring (SpecScaling), and                *)
(*     CircuitBreaker.operate (SpecBreaker)                                *)
(* Frequencies are in tenths of a hertz, magnitudes and severities in      *)
(* hundredths of a per-unit.                                               *)
(***************************************************************************)
EXTENDS Integers, Sequences, FiniteSets, TLC

VARIABLES
    \* ---- anomaly injector (OpenDSSAnomalySimulator) ----
    dss,          \* the engine: defined and enabled elements, frequency, mode, solved
    stack,        \* the injector functions control is inside of, outermost first
    prog,         \* the statements still to run (of the current sample, for a dataset)
    state,        \* the local `state` / `anomaly_data` dictionary being built
    dataset,      \* the local `dataset` list of generate_anomaly_dataset
    sample_i,     \* iterations of `for i in range(num_samples)` started so far
    num_samples,  \* the argument of generate_anomaly_dataset
    call,         \* the operation the serving layer called last
    outcome,      \* "idle", "running", "returned" or "raised"
    before,       \* the engine's configuration when the last primitive or call began
    raised,       \* exceptions thrown so far (bounded by MaxRaise)
    calls,        \* calls and dataset samples so far (bounded by MaxWork)
    results,      \* the snapshots a named scenario has collected
    \* ---- detector, predictor, optimizer and manager (ai_ml_models.py) ----
    anomaly_detector,  \* SubstationAIManager.anomaly_detector
    predictive_model,  \* SubstationAIManager.predictive_model
    optimizer,         \* SubstationAIManager.optimizer (length of its history)
    is_initialized,    \* SubstationAIManager.is_initialized
    arrivals,          \* per model and asset type: update_with_new_data calls so far
    fired,             \* per model and asset type: _retrain_single_type calls so far
    result,            \* what the last call on the manager or a model returned
    fit_errors,        \* fits that threw so far (bounded by MaxFitErrors)
    \* ---- urgency bands of one prediction ----
    predicted_health,  \* the regressor's output, in tenths of a health point
    prediction,        \* the prediction built from it
    \* ---- backend server (backend_server.py) ----
    disk,              \* the two bundle files of the model directory
    startup,           \* "pending", or "done" once startup_event has returned
    update_counter,    \* the local update_counter of asset_data_updater
    running,           \* the task the event loop is running, "none" between tasks
    updater,           \* asset_data_updater: where it is, and its locals
    analysis,          \* the analysis task: where it is, and what it has read
    last_save,         \* the cycle and outcome of the last periodic save
    \* ---- functions called on their own ----
    health_call,       \* the last call of AssetHealth.calculate_health_score
    detection,         \* the last reading scored by detect_anomalies
    schedule,          \* the last call of optimize_maintenance_schedule
    \* ---- registered assets (asset_models.py) ----
    asset_manager,     \* the assets of SubstationAssetManager, by asset_id
    telemetry,         \* the asset_data last passed to update_models_online, by asset_id
    \* ---- single devices (asset_models.py) ----
    wear_call,         \* the last call of calculate_thermal_stress / calculate_mechanical_wear
    breaker,           \* a CircuitBreaker and the outcome of its last operate
    \* ---- what a type's model is fitted on and what it is handed when scoring ----
    scaling            \* the model and scaler of one type and the last scoring call

injVars ==
    <<dss, stack, prog, state, dataset, sample_i, num_samples, call, outcome, before,
      raised, calls, results>>

aiVars ==
    <<anomaly_detector, predictive_model, optimizer, is_initialized, arrivals, fired,
      result, fit_errors>>

bandVars == <<predicted_health, prediction>>

backendVars == <<disk, startup, update_counter, running, updater, analysis, last_save>>

pureVars == <<health_call, detection, schedule>>

assetVars == <<asset_manager, telemetry>>

deviceVars == <<wear_call, breaker, scaling>>

vars == <<injVars, aiVars, bandVars, backendVars, pureVars, assetVars, deviceVars>>

\* what the actions of one part of the program leave unchanged
outsideInjector == <<aiVars, bandVars, backendVars, pureVars, assetVars, deviceVars>>
outsideManager == <<injVars, bandVars, backendVars, pureVars, assetVars, deviceVars>>
outsidePrediction == <<injVars, aiVars, backendVars, pureVars, assetVars, deviceVars>>
outsideBackend == <<injVars, bandVars, pureVars, assetVars, deviceVars>>
outsideAssets == <<injVars, aiVars, bandVars, backendVars, pureVars, deviceVars>>
outsideHealth == <<injVars, aiVars, bandVars, backendVars, detection, schedule, assetVars, deviceVars>>
outsideDetection ==
    <<injVars, aiVars, bandVars, backendVars, health_call, schedule, assetVars, deviceVars>>
outsideWear ==
    <<injVars, aiVars, bandVars, backendVars, pureVars, assetVars, breaker, scaling>>
outsideBreaker ==
    <<injVars, aiVars, bandVars, backendVars, pureVars, assetVars, wear_call, scaling>>
outsideScaling ==
    <<injVars, aiVars, bandVars, backendVars, pureVars, assetVars, wear_call, breaker>>
outsideSchedule ==
    <<injVars, aiVars, bandVars, backendVars, health_call, detection, assetVars, deviceVars>>

\* a specification leaves the parts of the program it does not exercise alone
InjectorUnused ==
    /\ dss = "unused" /\ stack = <<>> /\ prog = <<>> /\ state = "unused"
    /\ dataset = <<>> /\ sample_i = 0 /\ num_samples = 0 /\ call = "none"
    /\ outcome = "idle" /\ before = "unused" /\ raised = 0 /\ calls = 0
    /\ results = <<>>

AiUnused ==
    /\ anomaly_detector = "unused" /\ predictive_model = "unused"
    /\ optimizer = "unused" /\ is_initialized = FALSE /\ arrivals = "unused"
    /\ fired = "unused" /\ result = "unused" /\ fit_errors = 0

BandsUnused == predicted_health = 0 /\ prediction = "unused"

BackendUnused ==
    /\ disk = "unused" /\ startup = "pending" /\ update_counter = 0
    /\ running = "none" /\ updater = "unused" /\ analysis = "unused"
    /\ last_save = "unused"

HealthUnused == health_call = "unused"
DetectionUnused == detection = "unused"
ScheduleUnused == schedule = "unused"
AssetsUnused == asset_manager = "unused" /\ telemetry = "unused"
WearUnused == wear_call = "unused"
BreakerUnused == breaker = "unused"
ScalingUnused == scaling = "unused"

-----------------------------------------------------------------------------
(* Bounds of the model                                                     *)

\* calls of the serving layer plus dataset samples in one behaviour
MaxWork == 3
\* exceptions the engine throws in one behaviour
MaxRaise == 1

-----------------------------------------------------------------------------
(* The engine (py_dss_interface.DSS) as the injector uses it               *)

\* the elements of the default circuit that the injector switches
BaselineElements == {"capacitor.Cap220_1", "line.Line220_1"}

DefaultFrequency == 500

\* the base frequencies a circuit can have: 50 Hz, or the engine's own 60 Hz
\* when a compiled circuit file sets none
CircuitFrequencies == {DefaultFrequency, DefaultFrequency + 100}

\* _create_default_ehv_circuit: frequency 50, snapshot mode, solved
create_default_ehv_circuit ==
    [defined |-> BaselineElements, enabled |-> BaselineElements,
     frequency |-> DefaultFrequency, mode |-> "snapshot", solved |-> TRUE]

\* _initialize_dss: the default circuit, or the circuit of a compiled file
initialize_dss ==
    {[create_default_ehv_circuit EXCEPT !.frequency = f] : f \in CircuitFrequencies}

\* the effective configuration a solve works on
Config(d) == [enabled |-> d.enabled, frequency |-> d.frequency, mode |-> d.mode]

\* a configuration that differs from an undisturbed circuit
Disturbed(d) ==
    \/ d.enabled # BaselineElements
    \/ d.mode # "snapshot"
    \/ d.frequency \notin CircuitFrequencies

Instr(op, el, val) == [op |-> op, el |-> el, val |-> val]
New(el) == Instr("new", el, 0)
Disable(el) == Instr("disable", el, 0)
Enable(el) == Instr("enable", el, 0)
SetFrequency(f) == Instr("set frequency", "", f)
SetMode(m) == Instr("set mode", m, 0)
Solve == Instr("solve", "", 0)

EngineOps == {"new", "disable", "enable", "set frequency", "set mode", "solve"}

\* self.dss.text(command). `keep` is the engine's answer to `new` on a name that
\* is already defined: the element is redefined and either stays as it was
\* (keep) or comes back enabled.
text(d, c, keep) ==
    CASE c.op = "new" ->
            [d EXCEPT !.defined = @ \cup {c.el},
                      !.enabled = IF c.el \in d.defined /\ keep THEN @ ELSE @ \cup {c.el},
                      !.solved = FALSE]
      [] c.op = "disable" ->
            [d EXCEPT !.enabled = @ \ {c.el}, !.solved = FALSE]
      [] c.op = "enable" ->
            [d EXCEPT !.enabled = IF c.el \in d.defined THEN @ \cup {c.el} ELSE @,
                      !.solved = FALSE]
      [] c.op = "set frequency" ->
            [d EXCEPT !.frequency = c.val, !.solved = FALSE]
      [] c.op = "set mode" ->
            [d EXCEPT !.mode = c.el, !.solved = FALSE]
      [] c.op = "solve" ->
            [d EXCEPT !.solved = TRUE]

-----------------------------------------------------------------------------
(* Statements of the injector that are not engine commands                 *)

NoSeverity == 0 - 1000

Capture == Instr("capture", "", 0)                 \* _capture_system_state()
CaptureHarmonic == Instr("capture", "harmonics", 0) \* _capture_harmonic_state()
Tag(type, sev) == Instr("tag", type, sev)          \* anomaly_data['anomaly_type'] = ...
Query(el) == Instr("query", el, 0)                 \* set_active_element + a read
Build(type) == Instr("build", type, 0)             \* anomaly_data = {...}
Label(v) == Instr("label", "", v)                  \* state['label'] = v
Call(f) == Instr("call", f, 0)
Return == Instr("return", "", 0)
Try == Instr("try", "", 0)
EndTry == Instr("endtry", "", 0)
AppendRow == Instr("append", "", 0)
AppendStage == Instr("stage", "", 0)               \* results[...].append(state)

\* the statements that call into the engine and so may throw
CanRaise == EngineOps \cup {"capture", "query"}

\* `by` names the function that created the dictionary
NoState ==
    [captured |-> FALSE, anomaly_type |-> "", severity |-> {}, label |-> {},
     enabled |-> {}, frequency |-> 0, mode |-> "", solved |-> FALSE,
     harmonics |-> FALSE, by |-> ""]

\* _capture_system_state / _capture_harmonic_state: what the engine shows now
capture_system_state(d, kind) ==
    [captured |-> TRUE, anomaly_type |-> "", severity |-> {}, label |-> {},
     enabled |-> d.enabled, frequency |-> d.frequency, mode |-> d.mode,
     solved |-> d.solved, harmonics |-> (kind = "harmonics"), by |-> ""]

\* _extract_features: label and tag default to 0 and 'normal'
extract_features(s) ==
    [label |-> IF s.label = {} THEN 0 ELSE CHOOSE v \in s.label : TRUE,
     anomaly_type |-> IF s.anomaly_type = "" THEN "normal" ELSE s.anomaly_type,
     disturbed |-> s.captured /\ Disturbed(s), solved |-> s.solved, by |-> s.by]

-----------------------------------------------------------------------------
(* The injection primitives, statement by statement                        *)

PhaseOrder == <<"A", "B", "C">>

RECURSIVE ForPhases(_, _, _)
ForPhases(op, phases, k) ==
    IF k > Len(PhaseOrder) THEN <<>>
    ELSE (IF PhaseOrder[k] \in phases
          THEN <<Instr(op, "fault.sag_" \o PhaseOrder[k], 0)>> ELSE <<>>)
         \o ForPhases(op, phases, k + 1)

inject_voltage_sag(bus, magnitude, phases) ==
    ForPhases("new", phases, 1)
    \o <<Solve, Capture, Tag("voltage_sag", 100 - magnitude)>>
    \o ForPhases("disable", phases, 1)
    \o <<Solve>>

inject_harmonic_distortion(bus) ==
    <<New("isource.harm_3"), New("isource.harm_5"), New("isource.harm_7"),
      SetMode("harmonics"), Solve, CaptureHarmonic,
      Tag("harmonic_distortion", NoSeverity),
      Disable("isource.harm_3"), Disable("isource.harm_5"), Disable("isource.harm_7"),
      SetMode("snapshot"), Solve>>

inject_transformer_overload(transformer) ==
    <<Query("transformer." \o transformer), Query("transformer." \o transformer),
      New("load.overload_" \o transformer), Solve, Capture,
      Tag("transformer_overload", NoSeverity),
      Query("transformer." \o transformer),
      Disable("load.overload_" \o transformer), Solve>>

inject_capacitor_switching(capacitor) ==
    <<Disable("capacitor." \o capacitor), Solve, Capture,
      Enable("capacitor." \o capacitor), Solve, Capture,
      Build("capacitor_switching")>>

inject_ground_fault(bus) ==
    <<New("fault.gnd_fault"), Solve, Capture, Tag("ground_fault", NoSeverity),
      Query("fault.gnd_fault"), Disable("fault.gnd_fault"), Solve>>

\* the restore writes the deviated frequency back
inject_frequency_deviation_no_restore(deviation) ==
    <<SetFrequency(DefaultFrequency + deviation), Solve, Capture,
      Tag("frequency_deviation", NoSeverity),
      SetFrequency(DefaultFrequency + deviation), Solve>>

inject_frequency_deviation(deviation) ==
    <<SetFrequency(DefaultFrequency + deviation), Solve, Capture,
      Tag("frequency_deviation", NoSeverity),
      SetFrequency(DefaultFrequency), Solve>>

inject_ct_saturation(ct_location) ==
    <<New("fault.ct_sat_fault"), Solve, Query("fault.ct_sat_fault"),
      Build("ct_saturation"), Disable("fault.ct_sat_fault"), Solve>>

\* the primitives that add a disturbance and then clear it
Primitives ==
    {"inject_voltage_sag", "inject_harmonic_distortion", "inject_transformer_overload",
     "inject_ground_fault", "inject_frequency_deviation", "inject_ct_saturation"}

InjectionPrimitives == Primitives \cup {"inject_capacitor_switching"}

-----------------------------------------------------------------------------
(* Arguments the callers pass (api/anomaly_endpoints.py trigger_anomaly,    *)
(* generate_anomaly_dataset)                                               *)

Buses == {"Bus220_1"}
Magnitudes == {50, 80, 120}
PhaseSets == {{"A", "B", "C"}}
Transformers == {"TR1"}
Capacitors == {"Cap220_1"}
Deviations == {5, 10}

\* random.choice(anomaly_types): the four types with a branch of their own and
\* one of the others, which fall to the default branch
AnomalyChoices ==
    {"voltage_sag", "harmonic_distortion", "transformer_overload", "ground_fault",
     "frequency_deviation"}

\* the if/elif chain of one disturbed sample: the primitive it calls
AnomalyCall(anomaly_type) ==
    (CASE anomaly_type = "voltage_sag" ->
            <<Call("inject_voltage_sag")>>
            \o inject_voltage_sag("Bus220_1", 50, {"A", "B", "C"})
       [] anomaly_type = "harmonic_distortion" ->
            <<Call("inject_harmonic_distortion")>>
            \o inject_harmonic_distortion("Bus220_1")
       [] anomaly_type = "transformer_overload" ->
            <<Call("inject_transformer_overload")>>
            \o inject_transformer_overload("TR1")
       [] anomaly_type = "ground_fault" ->
            <<Call("inject_ground_fault")>>
            \o inject_ground_fault("Bus220_1")
       [] OTHER ->
            <<Call("inject_voltage_sag")>>
            \o inject_voltage_sag("Bus220_1", 80, {"A", "B", "C"}))
    \o <<Return>>

\* a try block that sets the label on the dictionary of the sample before,
\* which the primitive's own dictionary then replaces
AnomalyBranch_label_first(anomaly_type) ==
    <<Try, Label(1)>> \o AnomalyCall(anomaly_type) \o <<EndTry, AppendRow>>

\* the try block of one disturbed sample of generate_anomaly_dataset
AnomalyBranch(anomaly_type) ==
    <<Try>> \o AnomalyCall(anomaly_type) \o <<Label(1), EndTry, AppendRow>>

\* the undisturbed sample of generate_anomaly_dataset
NormalBranch == <<Solve, Capture, Label(0), Tag("normal", NoSeverity), AppendRow>>

-----------------------------------------------------------------------------
(* Actions of the injector                                                 *)

InitInject ==
    /\ dss \in initialize_dss
    /\ stack = <<>>
    /\ prog = <<>>
    /\ state = NoState
    /\ dataset = <<>>
    /\ sample_i = 0
    /\ num_samples = 0
    /\ call = "none"
    /\ outcome = "idle"
    /\ before = Config(dss)
    /\ raised = 0
    /\ calls = 0
    /\ results = <<>>
    /\ AiUnused
    /\ BandsUnused
    /\ BackendUnused
    /\ HealthUnused /\ DetectionUnused /\ ScheduleUnused /\ AssetsUnused
    /\ WearUnused /\ BreakerUnused /\ ScalingUnused

\* the serving layer calls one primitive; the engine is not reentrant
CallPrimitive(name, body) ==
    /\ outcome # "running"
    /\ calls < MaxWork
    /\ calls' = calls + 1
    /\ call' = name
    /\ outcome' = "running"
    /\ stack' = <<name>>
    /\ prog' = body \o <<Return>>
    /\ state' = NoState
    /\ before' = Config(dss)
    /\ UNCHANGED <<dss, dataset, sample_i, num_samples, raised, results>>
    /\ UNCHANGED outsideInjector

Call_inject_voltage_sag ==
    \E bus \in Buses, magnitude \in Magnitudes, phases \in PhaseSets :
        CallPrimitive("inject_voltage_sag", inject_voltage_sag(bus, magnitude, phases))

Call_inject_harmonic_distortion ==
    \E bus \in Buses :
        CallPrimitive("inject_harmonic_distortion", inject_harmonic_distortion(bus))

Call_inject_transformer_overload ==
    \E transformer \in Transformers :
        CallPrimitive("inject_transformer_overload",
                      inject_transformer_overload(transformer))

Call_inject_capacitor_switching ==
    \E capacitor \in Capacitors :
        CallPrimitive("inject_capacitor_switching",
                      inject_capacitor_switching(capacitor))

Call_inject_ground_fault ==
    \E bus \in Buses :
        CallPrimitive("inject_ground_fault", inject_ground_fault(bus))

Call_inject_frequency_deviation ==
    \E deviation \in Deviations :
        CallPrimitive("inject_frequency_deviation",
                      inject_frequency_deviation(deviation))

Call_inject_ct_saturation ==
    \E ct_location \in Buses :
        CallPrimitive("inject_ct_saturation", inject_ct_saturation(ct_location))

Call_generate_anomaly_dataset ==
    /\ outcome # "running"
    /\ calls < MaxWork
    /\ \E n \in 0..(MaxWork - calls - 1) :
          /\ num_samples' = n
          /\ calls' = calls + 1 + n
    /\ call' = "generate_anomaly_dataset"
    /\ outcome' = "running"
    /\ stack' = <<"generate_anomaly_dataset">>
    /\ prog' = <<>>
    /\ state' = NoState
    /\ dataset' = <<>>
    /\ sample_i' = 0
    /\ before' = Config(dss)
    /\ UNCHANGED <<dss, raised, results>>
    /\ UNCHANGED outsideInjector

\* `for i in range(num_samples)`: the next sample, normal or disturbed
DatasetSample ==
    /\ stack = <<"generate_anomaly_dataset">>
    /\ prog = <<>>
    /\ sample_i < num_samples
    /\ sample_i' = sample_i + 1
    /\ \/ prog' = NormalBranch
       \/ \E anomaly_type \in AnomalyChoices : prog' = AnomalyBranch(anomaly_type)
    /\ UNCHANGED <<dss, stack, state, dataset, num_samples, call, outcome, before, raised, calls,
                   results>>
    /\ UNCHANGED outsideInjector

\* `return pd.DataFrame(dataset)`
DatasetReturn ==
    /\ stack = <<"generate_anomaly_dataset">>
    /\ prog = <<>>
    /\ sample_i = num_samples
    /\ stack' = <<>>
    /\ outcome' = "returned"
    /\ UNCHANGED <<dss, prog, state, dataset, sample_i, num_samples, call, before, raised, calls,
                   results>>
    /\ UNCHANGED outsideInjector

\* the next statement runs to its end
Exec ==
    /\ prog # <<>>
    /\ LET c == Head(prog) IN
        /\ prog' = Tail(prog)
        /\ IF c.op \in EngineOps
           THEN \E keep \in BOOLEAN : dss' = text(dss, c, keep)
           ELSE dss' = dss
        /\ state' =
              CASE c.op = "capture" ->
                     [capture_system_state(dss, c.el) EXCEPT !.by = stack[Len(stack)]]
                [] c.op = "tag" ->
                     [state EXCEPT !.anomaly_type = c.el,
                                   !.severity = IF c.val = NoSeverity THEN {} ELSE {c.val}]
                [] c.op = "build" ->
                     [NoState EXCEPT !.anomaly_type = c.el, !.by = stack[Len(stack)]]
                [] c.op = "label" -> [state EXCEPT !.label = {c.val}]
                [] OTHER -> state
        /\ stack' =
              CASE c.op = "call" -> Append(stack, c.el)
                [] c.op = "return" -> SubSeq(stack, 1, Len(stack) - 1)
                [] OTHER -> stack
        /\ outcome' = IF c.op = "return" /\ Len(stack) = 1 THEN "returned" ELSE outcome
        /\ dataset' = IF c.op = "append"
                       THEN Append(dataset, extract_features(state)) ELSE dataset
        /\ before' = IF c.op = "call" /\ c.el \in InjectionPrimitives
                      THEN Config(dss) ELSE before
        /\ results' = IF c.op = "stage" THEN Append(results, state) ELSE results
    /\ UNCHANGED <<sample_i, num_samples, call, raised, calls>>
    /\ UNCHANGED outsideInjector

\* the next statement throws: generate_anomaly_dataset's `except` catches what
\* its try block throws and goes on to the next sample; anything else
\* propagates to the caller
Raise ==
    /\ prog # <<>>
    /\ Head(prog).op \in CanRaise
    /\ raised < MaxRaise
    /\ raised' = raised + 1
    /\ prog' = <<>>
    /\ IF \E k \in 1..Len(prog) : prog[k].op = "endtry"
       THEN /\ stack' = <<"generate_anomaly_dataset">>
            /\ outcome' = outcome
       ELSE /\ stack' = <<>>
            /\ outcome' = "raised"
    /\ UNCHANGED <<dss, state, dataset, sample_i, num_samples, call, before, calls, results>>
    /\ UNCHANGED outsideInjector

NextInject ==
    \/ Call_inject_voltage_sag
    \/ Call_inject_harmonic_distortion
    \/ Call_inject_transformer_overload
    \/ Call_inject_capacitor_switching
    \/ Call_inject_ground_fault
    \/ Call_inject_frequency_deviation
    \/ Call_inject_ct_saturation
    \/ Call_generate_anomaly_dataset
    \/ DatasetSample
    \/ DatasetReturn
    \/ Exec
    \/ Raise

SpecInject == InitInject /\ [][NextInject]_vars

-----------------------------------------------------------------------------
-----------------------------------------------------------------------------
(* Named scenarios (run_anomaly_scenario)                                  *)

\* _scenario_voltage_collapse: three stages, then the restore
scenario_voltage_collapse ==
    <<New("load.heavy_load"), Solve, Capture, AppendStage,
      Disable("capacitor.Cap220_1"), Solve, Capture, AppendStage,
      Disable("line.Line220_1"), Solve, Capture, AppendStage,
      Disable("load.heavy_load"), Enable("capacitor.Cap220_1"),
      Enable("line.Line220_1"), Solve>>

\* _scenario_transformer_failure: a winding fault, then the harmonic primitive
scenario_transformer_failure ==
    <<New("fault.winding"), Solve, Capture, AppendStage, Disable("fault.winding"),
      Call("inject_harmonic_distortion")>>
    \o inject_harmonic_distortion("Bus400_1")
    \o <<Return, AppendStage>>

\* the scenarios dictionary of run_anomaly_scenario
Scenarios == {"voltage_collapse", "transformer_failure"}

ScenarioBody(scenario) ==
    CASE scenario = "voltage_collapse" -> scenario_voltage_collapse
      [] scenario = "transformer_failure" -> scenario_transformer_failure

\* run_anomaly_scenario(scenario), called by the serving layer
Call_run_anomaly_scenario ==
    \E scenario \in Scenarios :
        /\ outcome # "running"
        /\ calls < MaxWork
        /\ calls' = calls + 1
        /\ call' = scenario
        /\ outcome' = "running"
        /\ stack' = <<scenario>>
        /\ prog' = ScenarioBody(scenario) \o <<Return>>
        /\ state' = NoState
        /\ results' = <<>>
        /\ before' = Config(dss)
        /\ UNCHANGED <<dss, dataset, sample_i, num_samples, raised>>
        /\ UNCHANGED outsideInjector

NextScenario ==
    \/ Call_inject_voltage_sag
    \/ Call_inject_harmonic_distortion
    \/ Call_inject_transformer_overload
    \/ Call_inject_capacitor_switching
    \/ Call_inject_ground_fault
    \/ Call_inject_frequency_deviation
    \/ Call_inject_ct_saturation
    \/ Call_generate_anomaly_dataset
    \/ Call_run_anomaly_scenario
    \/ DatasetSample
    \/ DatasetReturn
    \/ Exec
    \/ Raise

SpecScenario == InitInject /\ [][NextScenario]_vars

\* run_anomaly_scenario('voltage_collapse') has returned, in a run in which the
\* engine never threw
VoltageCollapseReturned ==
    call = "voltage_collapse" /\ outcome = "returned" /\ raised = 0

\* C23: run_anomaly_scenario('voltage_collapse') returns exactly three
\* snapshots in the order they were captured: the first with only the heavy
\* load added, the second with the capacitor Cap220_1 disabled too, the third
\* with line Line220_1 disabled too; after the call the heavy load is disabled,
\* the capacitor and the line are enabled and a solve has been issued.
C23_VoltageCollapseStages ==
    VoltageCollapseReturned =>
        /\ Len(results) = 3
        /\ results[1].enabled = before.enabled \cup {"load.heavy_load"}
        /\ results[2].enabled = results[1].enabled \ {"capacitor.Cap220_1"}
        /\ results[3].enabled = results[2].enabled \ {"line.Line220_1"}
        /\ "load.heavy_load" \in results[3].enabled
        /\ \A k \in 1..3 : results[k].solved
        /\ "load.heavy_load" \notin dss.enabled
        /\ {"capacitor.Cap220_1", "line.Line220_1"} \subseteq dss.enabled
        /\ dss.solved
(* Properties of the injector                                              *)

\* an element, frequency or mode that only a primitive's apply step sets
DisturbanceEnabled(d) ==
    \/ d.enabled \ BaselineElements # {}
    \/ d.mode = "harmonics"
    \/ d.frequency \notin CircuitFrequencies

InPrimitive == \E k \in 1..Len(stack) : stack[k] \in Primitives

\* control is about to return from a primitive, every statement of which ran
AtPrimitiveReturn ==
    /\ prog # <<>>
    /\ Head(prog).op = "return"
    /\ stack # <<>>
    /\ stack[Len(stack)] \in InjectionPrimitives

\* C1: whenever control is outside the six primitives, no disturbance of theirs
\* is enabled in the engine: the clear step ran before control left, also when
\* a statement after the apply threw.
C1_ClearStepAlwaysRuns == ~InPrimitive => ~DisturbanceEnabled(dss)

\* C5: generate_anomaly_dataset(n) that returns, returns exactly n rows.
C5_DatasetHasNRows ==
    (call = "generate_anomaly_dataset" /\ outcome = "returned")
        => Len(dataset) = num_samples

\* C10: a primitive that ran to its return from the default baseline circuit
\* leaves the engine's configuration (enabled elements, frequency, mode) as it
\* found it, and the last command issued is a solve.
C10_RoundTrip ==
    (AtPrimitiveReturn /\ before = Config(create_default_ehv_circuit))
        => (Config(dss) = before /\ dss.solved)

\* a primitive returns from the default baseline with a snapshot that shows
\* its disturbance
C10_Witness ==
    /\ AtPrimitiveReturn
    /\ before = Config(create_default_ehv_circuit)
    /\ state.captured
    /\ DisturbanceEnabled(state)

\* the run of generate_anomaly_dataset is the first call on the engine that
\* _initialize_dss left
FirstCallIsDataset ==
    /\ call = "generate_anomaly_dataset"
    /\ calls = num_samples + 1

\* the captured state of the sample is about to get `state['label'] = 0`
AboutToLabelNormal ==
    /\ stack = <<"generate_anomaly_dataset">>
    /\ prog # <<>>
    /\ Head(prog) = Label(0)
    /\ state.captured

\* C11: in a run of generate_anomaly_dataset on a freshly initialised engine,
\* every sample that gets label 0 was captured while no disturbance created by
\* the injector was enabled, at every position of the run, also after an
\* earlier sample's injection threw and was skipped.
C11_NormalSamplesUndisturbed ==
    (FirstCallIsDataset /\ AboutToLabelNormal) => ~DisturbanceEnabled(state)

\* the literal each primitive writes into anomaly_data['anomaly_type']
PrimitiveTag(primitive) ==
    CASE primitive = "inject_voltage_sag" -> "voltage_sag"
      [] primitive = "inject_harmonic_distortion" -> "harmonic_distortion"
      [] primitive = "inject_transformer_overload" -> "transformer_overload"
      [] primitive = "inject_capacitor_switching" -> "capacitor_switching"
      [] primitive = "inject_ground_fault" -> "ground_fault"
      [] primitive = "inject_frequency_deviation" -> "frequency_deviation"
      [] primitive = "inject_ct_saturation" -> "ct_saturation"
      [] OTHER -> "normal"

\* C12: every row of generate_anomaly_dataset has label 0 exactly when its
\* anomaly_type is 'normal', and a row with label 1 carries the tag of the
\* primitive that was applied for its sample.
C12_LabelMatchesTag ==
    \A k \in 1..Len(dataset) :
        /\ dataset[k].label = 0 <=> dataset[k].anomaly_type = "normal"
        /\ dataset[k].label = 1 =>
              /\ dataset[k].by \in InjectionPrimitives
              /\ dataset[k].anomaly_type = PrimitiveTag(dataset[k].by)

\* a returned dataset with a disturbed row and a normal row
C12_Witness ==
    /\ call = "generate_anomaly_dataset"
    /\ outcome = "returned"
    /\ \E k \in 1..Len(dataset) : dataset[k].label = 1
    /\ \E k \in 1..Len(dataset) : dataset[k].label = 0

-----------------------------------------------------------------------------
(* Detector and predictor (src/src/models/ai_ml_models.py)                 *)
(* A fitted model, scaler or threshold is identified by the number of the  *)
(* fit that produced it (0: the dictionary has no entry for the type); an  *)
(* observation by its arrival number among those of its asset type.        *)

\* online updates of the asset type that is followed through full buffers
MaxUpdates == 201
\* online updates of every other asset type
MaxFewUpdates == 2
\* fits that throw in one behaviour
MaxFitErrors == 1
\* entries of the optimizer's history
MaxHistory == 1

\* asset types of the synthetic corpus
BootstrapTypes ==
    {"PowerTransformer", "DistributionTransformer", "CircuitBreaker", "IndustrialLoad"}
\* asset_type values that telemetry of registered assets carries
RegisteredTypes == {"power_transformer", "circuit_breaker"}
AssetTypes == BootstrapTypes \cup RegisteredTypes

DetectorBufferSize == 100
PredictorBufferSize == 200
DetectorRetrainMin == 50
PredictorRetrainMin == 100
DetectorTrainMin == 100
PredictorTrainMin == 200
SyntheticSamples == 2000

NoEntries == [t \in AssetTypes |-> 0]
NoBuffers == [t \in AssetTypes |-> <<>>]

\* SubstationAnomalyDetector.__init__
SubstationAnomalyDetector ==
    [models |-> NoEntries, scalers |-> NoEntries, thresholds |-> NoEntries,
     is_trained |-> FALSE, online_buffer |-> NoBuffers,
     buffer_size |-> DetectorBufferSize]

\* SubstationPredictiveModel.__init__
SubstationPredictiveModel ==
    [models |-> NoEntries, scalers |-> NoEntries, feature_importance |-> NoEntries,
     is_trained |-> FALSE, online_buffer |-> NoBuffers,
     buffer_size |-> PredictorBufferSize]

Max2(a, b) == IF a >= b THEN a ELSE b

\* the number of the next fit of a type
DetectorFit(d, t) == 1 + Max2(d.models[t], Max2(d.scalers[t], d.thresholds[t]))
PredictorFit(d, t) ==
    1 + Max2(d.models[t], Max2(d.scalers[t], d.feature_importance[t]))

\* rows per asset type of the corpus of initialize_with_synthetic_data
SyntheticCorpus ==
    [t \in AssetTypes |->
        IF t \in BootstrapTypes
        THEN SyntheticSamples \div Cardinality(BootstrapTypes) ELSE 0]

\* SubstationAnomalyDetector.train: one fit per type with enough rows
Detector_train(d, rows) ==
    LET fitted == {t \in AssetTypes : rows[t] >= DetectorTrainMin}
        new(f) == [t \in AssetTypes |-> IF t \in fitted THEN DetectorFit(d, t) ELSE f[t]]
    IN [d EXCEPT !.models = new(d.models), !.scalers = new(d.scalers),
                 !.thresholds = new(d.thresholds), !.is_trained = TRUE]

\* SubstationPredictiveModel.train
Predictor_train(d, rows) ==
    LET fitted == {t \in AssetTypes : rows[t] >= PredictorTrainMin}
        new(f) == [t \in AssetTypes |-> IF t \in fitted THEN PredictorFit(d, t) ELSE f[t]]
    IN [d EXCEPT !.models = new(d.models), !.scalers = new(d.scalers),
                 !.feature_importance = new(d.feature_importance),
                 !.is_trained = TRUE]

\* SubstationAnomalyDetector._retrain_single_type; `fit` is "ok" or "error"
\* (anything the try block throws is logged and swallowed)
Detector_retrain_single_type(d, t, new_data, fit) ==
    IF fit = "error" \/ Len(new_data) < DetectorRetrainMin
    THEN d
    ELSE LET g == DetectorFit(d, t)
         IN [d EXCEPT !.models[t] = g, !.scalers[t] = g, !.thresholds[t] = g]

\* SubstationPredictiveModel._retrain_single_type
Predictor_retrain_single_type(d, t, new_data, fit) ==
    IF fit = "error" \/ Len(new_data) < PredictorRetrainMin
    THEN d
    ELSE LET g == PredictorFit(d, t)
         IN [d EXCEPT !.models[t] = g, !.scalers[t] = g, !.feature_importance[t] = g]

\* a fraction so small that int() gives 0, and lst[-0:] keeps the whole list
KeepSize_rounds_to_zero(buffer_size) == (buffer_size * 2) \div 1000

\* int(self.buffer_size * 0.2)
KeepSize(buffer_size) == (buffer_size * 2) \div 10

\* the slice lst[:k] (the oldest k items)
FirstItems(lst, k) == SubSeq(lst, 1, IF k >= Len(lst) THEN Len(lst) ELSE k)

\* the slice lst[-k:]; -0 is 0, so lst[-0:] is the whole list
LastItems(lst, k) ==
    IF k = 0 \/ k >= Len(lst) THEN lst ELSE SubSeq(lst, Len(lst) - k + 1, Len(lst))

\* SubstationAnomalyDetector.update_with_new_data
Detector_update_with_new_data(d, t, features_dict, fit) ==
    LET appended == [d EXCEPT !.online_buffer[t] = Append(@, features_dict)]
        full == Len(appended.online_buffer[t]) >= d.buffer_size
        retrained == Detector_retrain_single_type(appended, t,
                                                  appended.online_buffer[t], fit)
    IN [fired |-> IF full THEN 1 ELSE 0,
        obj |-> IF full
                THEN [retrained EXCEPT
                        !.online_buffer[t] = LastItems(@, KeepSize(d.buffer_size))]
                ELSE appended]

\* SubstationPredictiveModel.update_with_new_data
Predictor_update_with_new_data(d, t, features_dict, fit) ==
    LET appended == [d EXCEPT !.online_buffer[t] = Append(@, features_dict)]
        full == Len(appended.online_buffer[t]) >= d.buffer_size
        retrained == Predictor_retrain_single_type(appended, t,
                                                   appended.online_buffer[t], fit)
    IN [fired |-> IF full THEN 1 ELSE 0,
        obj |-> IF full
                THEN [retrained EXCEPT
                        !.online_buffer[t] = LastItems(@, KeepSize(d.buffer_size))]
                ELSE appended]

\* ---- scoring ----
\* a reading: the dictionary of one asset, or a value that is not a dictionary;
\* asset_type "none" is a dictionary without the key; reading "text" holds a
\* feature value that the scaler cannot convert
Reading(asset_id, asset_type) ==
    [asset_id |-> asset_id, kind |-> "dict", asset_type |-> asset_type,
     reading |-> "numeric"]
HasEntry(f, t) == t \in AssetTypes /\ f[t] # 0

\* the body of detect_anomalies' inner try runs to its end for this asset
DetectorScores(d, a) ==
    /\ HasEntry(d.models, a.asset_type)          \* `if asset_type not in self.models`
    /\ a.reading = "numeric"                      \* scaler.transform(X)
    /\ HasEntry(d.scalers, a.asset_type)
    /\ HasEntry(d.thresholds, a.asset_type)

Scored(d, a) ==
    [asset_id |-> a.asset_id, asset_type |-> a.asset_type,
     model |-> d.models[a.asset_type], scaler |-> d.scalers[a.asset_type]]

RECURSIVE MapScored(_, _)
MapScored(d, items) ==
    IF items = <<>> THEN <<>>
    ELSE <<Scored(d, Head(items))>> \o MapScored(d, Tail(items))

\* SubstationAnomalyDetector.detect_anomalies: the assets it scored, or the
\* exception that leaves it (`assets.items()` and `asset_data.get` are outside
\* the inner try)
Detector_detect_anomalies(d, current_data) ==
    IF ~d.is_trained THEN [exc |-> FALSE, scored |-> <<>>]
    ELSE IF current_data.kind # "dict" THEN [exc |-> TRUE, scored |-> <<>>]
    ELSE IF \E k \in 1..Len(current_data.items) : current_data.items[k].kind # "dict"
    THEN [exc |-> TRUE, scored |-> <<>>]
    ELSE [exc |-> FALSE,
          scored |-> MapScored(d, SelectSeq(current_data.items,
                                            LAMBDA a : DetectorScores(d, a)))]

PredictorScores(d, a) ==
    /\ HasEntry(d.models, a.asset_type)
    /\ a.reading = "numeric"
    /\ HasEntry(d.scalers, a.asset_type)

\* SubstationPredictiveModel.predict_health_degradation
Predictor_predict_health_degradation(d, current_data) ==
    IF ~d.is_trained THEN [exc |-> FALSE, scored |-> <<>>]
    ELSE IF current_data.kind # "dict" THEN [exc |-> TRUE, scored |-> <<>>]
    ELSE IF \E k \in 1..Len(current_data.items) : current_data.items[k].kind # "dict"
    THEN [exc |-> TRUE, scored |-> <<>>]
    ELSE [exc |-> FALSE,
          scored |-> MapScored(d, SelectSeq(current_data.items,
                                            LAMBDA a : PredictorScores(d, a)))]

\* SubstationOptimizer.optimize_power_flow: the new length of the history; a
\* current_state that is not a dictionary throws inside its try, which returns {}
optimize_power_flow(history, metrics) ==
    IF metrics = "dict" THEN history + 1 ELSE history

\* ---- manager ----
EmptyResult == [exc |-> FALSE, value |-> "empty", anomalies |-> <<>>,
                predictions |-> <<>>, history |-> optimizer]

\* the try block of analyze_current_state
analyze_current_state_try(assets, metrics) ==
    LET anomalies == Detector_detect_anomalies(anomaly_detector, assets)
        predictions == Predictor_predict_health_degradation(predictive_model, assets)
    IN IF anomalies.exc \/ predictions.exc
       THEN [EmptyResult EXCEPT !.exc = TRUE]
       ELSE [exc |-> FALSE, value |-> "analysis", anomalies |-> anomalies.scored,
             predictions |-> predictions.scored,
             history |-> optimize_power_flow(optimizer, metrics)]

\* analyze_current_state with the `except` clause taken away
analyze_current_state_no_except(assets, metrics) ==
    IF ~is_initialized THEN EmptyResult
    ELSE analyze_current_state_try(assets, metrics)

\* SubstationAIManager.analyze_current_state
analyze_current_state(assets, metrics) ==
    IF ~is_initialized THEN EmptyResult
    ELSE LET r == analyze_current_state_try(assets, metrics)
         IN IF r.exc THEN EmptyResult ELSE r      \* `except Exception: return {}`

\* the try block of update_models_online
update_models_online_try(asset_data, fit_d, fit_p) ==
    LET unchanged == [exc |-> FALSE, buffered |-> FALSE,
                      detector |-> [fired |-> 0, obj |-> anomaly_detector],
                      predictor |-> [fired |-> 0, obj |-> predictive_model]]
        t == asset_data.asset_type
    IN IF asset_data.kind # "dict" THEN [unchanged EXCEPT !.exc = TRUE]
       ELSE IF t = "none" THEN unchanged          \* `if not asset_type: return`
       ELSE [exc |-> FALSE, buffered |-> TRUE,
             detector |-> Detector_update_with_new_data(
                             anomaly_detector, t, arrivals.detector[t] + 1, fit_d),
             predictor |-> Predictor_update_with_new_data(
                             predictive_model, t, arrivals.predictor[t] + 1, fit_p)]

\* SubstationAIManager.update_models_online
update_models_online(asset_data, fit_d, fit_p) ==
    LET r == update_models_online_try(asset_data, fit_d, fit_p)
    IN [r EXCEPT !.exc = FALSE]                   \* `except Exception: log`

-----------------------------------------------------------------------------
(* Calls on the manager and on its two models                              *)

\* telemetry of this type is followed through full buffers; the other types
\* get MaxFewUpdates observations
FollowedType == "power_transformer"
ObsCap(t) == IF t = FollowedType THEN MaxUpdates ELSE MaxFewUpdates
OnlineTypes == {"power_transformer", "PowerTransformer"}

NotADict ==
    [asset_id |-> "X1", kind |-> "other", asset_type |-> "none", reading |-> "numeric"]

\* asset_data arguments of update_models_online
TelemetryInputs ==
    {Reading("TR1", t) : t \in OnlineTypes} \cup {Reading("L1", "none"), NotADict}

\* `assets` / `current_data` arguments of the scoring calls
AssetInputs ==
    {[kind |-> "dict",
      items |-> <<Reading("TR1", "power_transformer"), Reading("L1", "none"),
                  [Reading("T2", "PowerTransformer") EXCEPT !.reading = "text"],
                  Reading("T1", "PowerTransformer")>>],
     [kind |-> "dict", items |-> <<Reading("T1", "PowerTransformer"), NotADict>>],
     [kind |-> "other", items |-> <<>>]}

\* `metrics` arguments: a dictionary or not
MetricsInputs == {"dict", "other"}

NoCounts == [detector |-> NoEntries, predictor |-> NoEntries]

\* SubstationAIManager() in a directory without persisted bundles
InitOnline ==
    /\ anomaly_detector = SubstationAnomalyDetector
    /\ predictive_model = SubstationPredictiveModel
    /\ optimizer = 0
    /\ is_initialized = FALSE
    /\ arrivals = NoCounts
    /\ fired = NoCounts
    /\ result = [op |-> "none", exc |-> FALSE]
    /\ fit_errors = 0
    /\ InjectorUnused
    /\ BandsUnused
    /\ BackendUnused
    /\ HealthUnused /\ DetectionUnused /\ ScheduleUnused /\ AssetsUnused
    /\ WearUnused /\ BreakerUnused /\ ScalingUnused

\* initialize_with_synthetic_data, called as startup does: when nothing was loaded
Call_initialize_with_synthetic_data ==
    /\ ~is_initialized
    /\ anomaly_detector' = Detector_train(anomaly_detector, SyntheticCorpus)
    /\ predictive_model' = Predictor_train(predictive_model, SyntheticCorpus)
    /\ is_initialized' = TRUE
    /\ result' = [op |-> "initialize_with_synthetic_data", exc |-> FALSE]
    /\ UNCHANGED <<optimizer, arrivals, fired, fit_errors, outsideManager>>

Count(fit, update) == IF fit = "error" /\ update.fired = 1 THEN 1 ELSE 0

\* what the fit of the retrain that this observation triggers can do
FitOutcomes(d, asset_data) ==
    IF /\ asset_data.kind = "dict"
       /\ asset_data.asset_type \in AssetTypes
       /\ Len(d.online_buffer[asset_data.asset_type]) + 1 >= d.buffer_size
    THEN {"ok", "error"} ELSE {"ok"}

Call_update_models_online ==
    \E asset_data \in TelemetryInputs :
    \E fit_d \in FitOutcomes(anomaly_detector, asset_data),
       fit_p \in FitOutcomes(predictive_model, asset_data) :
        LET r == update_models_online(asset_data, fit_d, fit_p)
            t == asset_data.asset_type
            errors == Count(fit_d, r.detector) + Count(fit_p, r.predictor)
        IN /\ r.buffered => arrivals.detector[t] < ObsCap(t)
           /\ fit_errors + errors <= MaxFitErrors
           /\ anomaly_detector' = r.detector.obj
           /\ predictive_model' = r.predictor.obj
           /\ arrivals' = IF r.buffered
                          THEN [arrivals EXCEPT !.detector[t] = @ + 1,
                                                !.predictor[t] = @ + 1]
                          ELSE arrivals
           /\ fired' = IF r.buffered
                       THEN [fired EXCEPT !.detector[t] = @ + r.detector.fired,
                                          !.predictor[t] = @ + r.predictor.fired]
                       ELSE fired
           /\ fit_errors' = fit_errors + errors
           /\ result' = [op |-> "update_models_online", exc |-> r.exc,
                         input |-> asset_data]
           /\ UNCHANGED <<optimizer, is_initialized, outsideManager>>

Call_detect_anomalies ==
    \E assets \in AssetInputs :
        LET r == Detector_detect_anomalies(anomaly_detector, assets)
        IN /\ result' = [op |-> "detect_anomalies", exc |-> r.exc, input |-> assets,
                         scored |-> r.scored]
           /\ UNCHANGED <<anomaly_detector, predictive_model, optimizer, is_initialized,
                          arrivals, fired, fit_errors, outsideManager>>

Call_predict_health_degradation ==
    \E assets \in AssetInputs :
        LET r == Predictor_predict_health_degradation(predictive_model, assets)
        IN /\ result' = [op |-> "predict_health_degradation", exc |-> r.exc,
                         input |-> assets, scored |-> r.scored]
           /\ UNCHANGED <<anomaly_detector, predictive_model, optimizer, is_initialized,
                          arrivals, fired, fit_errors, outsideManager>>

Call_analyze_current_state ==
    \E assets \in AssetInputs, metrics \in MetricsInputs :
        LET r == analyze_current_state(assets, metrics)
        IN /\ r.history <= MaxHistory
           /\ optimizer' = r.history
           /\ result' = [op |-> "analyze_current_state", exc |-> r.exc,
                         input |-> assets, metrics |-> metrics, value |-> r.value,
                         anomalies |-> r.anomalies, predictions |-> r.predictions]
           /\ UNCHANGED <<anomaly_detector, predictive_model, is_initialized, arrivals,
                          fired, fit_errors, outsideManager>>

NextOnline ==
    \/ Call_initialize_with_synthetic_data
    \/ Call_update_models_online
    \/ Call_detect_anomalies
    \/ Call_predict_health_degradation
    \/ Call_analyze_current_state

SpecOnline == InitOnline /\ [][NextOnline]_vars

-----------------------------------------------------------------------------
(* Properties of the online updates and of the scoring calls               *)

\* the k observations that arrived last among the first n, oldest first
MostRecent(n, k) == [i \in 1..k |-> n - k + i]

\* C2: counted from an empty buffer, the calls of update_with_new_data for a
\* type before the buffer_size-th fire no retrain; the buffer_size-th has fired
\* exactly one, and the buffer it leaves is the most recent 20 of 100
\* observations (detector), 40 of 200 (predictor), in arrival order.
C2_RetrainAtBufferSize ==
    \A t \in AssetTypes :
        /\ arrivals.detector[t] < DetectorBufferSize => fired.detector[t] = 0
        /\ arrivals.detector[t] = DetectorBufferSize =>
              /\ fired.detector[t] = 1
              /\ anomaly_detector.online_buffer[t] = MostRecent(100, 20)
        /\ arrivals.predictor[t] < PredictorBufferSize => fired.predictor[t] = 0
        /\ arrivals.predictor[t] = PredictorBufferSize =>
              /\ fired.predictor[t] = 1
              /\ predictive_model.online_buffer[t] = MostRecent(200, 40)

\* the predictor's buffer has just filled for the first time
C2_Witness ==
    /\ arrivals.predictor[FollowedType] = PredictorBufferSize
    /\ fired.predictor[FollowedType] = 1
    /\ fired.detector[FollowedType] >= 1
    /\ Len(predictive_model.online_buffer[FollowedType]) = KeepSize(PredictorBufferSize)

\* C4: analyze_current_state and update_models_online return normally whatever
\* their arguments are and whatever fails inside them.
C4_NeverPropagates ==
    result.op \in {"analyze_current_state", "update_models_online"} => ~result.exc

\* detect_anomalies threw inside analyze_current_state (an asset that is not a
\* dictionary, met by a trained detector) and the caller got {}
C4_Witness ==
    /\ result.op = "analyze_current_state"
    /\ is_initialized
    /\ anomaly_detector.is_trained
    /\ result.input.kind = "dict"
    /\ \E k \in 1..Len(result.input.items) : result.input.items[k].kind # "dict"
    /\ result.value = "empty"
    /\ ~result.exc

\* the well-formed assets of the input, in order, whose type has a model
WithModel(d, current_data) ==
    SelectSeq(current_data.items,
              LAMBDA a : a.kind = "dict" /\ a.reading = "numeric"
                         /\ HasEntry(d.models, a.asset_type))

Ids(items) == [i \in 1..Len(items) |-> items[i].asset_id]

\* C8: a scoring call that returns has scored exactly the assets whose type
\* has a model, whether bulk training or an online retrain made that model.
C8_ScoresEveryModelledType ==
    /\ (result.op = "detect_anomalies" /\ ~result.exc)
          => Ids(result.scored) = Ids(WithModel(anomaly_detector, result.input))
    /\ (result.op = "predict_health_degradation" /\ ~result.exc)
          => Ids(result.scored) = Ids(WithModel(predictive_model, result.input))

\* which components of its bundle an asset type has
BundleParts(t) ==
    {HasEntry(anomaly_detector.models, t), HasEntry(anomaly_detector.scalers, t),
     HasEntry(anomaly_detector.thresholds, t), HasEntry(predictive_model.models, t),
     HasEntry(predictive_model.scalers, t),
     HasEntry(predictive_model.feature_importance, t)}

\* C14: in every state that bulk training, online updates and retrains reach,
\* each asset type has its anomaly model, predictive model, scalers, threshold
\* and feature importance all together or none of them.
C14_BundleWholeOrAbsent == \A t \in AssetTypes : Cardinality(BundleParts(t)) = 1

-----------------------------------------------------------------------------
(* Urgency and maintenance window of one prediction                        *)
(* (SubstationPredictiveModel.predict_health_degradation, lines 264-290)   *)

\* predicted health values run from 0 to MaxHealth tenths of a point
MaxHealth == 1000

\* a literal of the source, in tenths
Points(p) == p * 10

\* the if/elif chain that sets `urgency`
urgency_of(health) ==
    IF health < Points(50) THEN "critical"
    ELSE IF health < Points(70) THEN "high"
    ELSE IF health < Points(85) THEN "medium"
    ELSE "low"

\* the windows with exactly 50 counted as immediate
calculate_maintenance_window_inclusive(health) ==
    IF health <= Points(50) THEN "immediate"
    ELSE IF health < Points(70) THEN "within_7_days"
    ELSE IF health < Points(85) THEN "within_30_days"
    ELSE "within_90_days"

\* SubstationPredictiveModel._calculate_maintenance_window
calculate_maintenance_window(health) ==
    IF health < Points(50) THEN "immediate"
    ELSE IF health < Points(70) THEN "within_7_days"
    ELSE IF health < Points(85) THEN "within_30_days"
    ELSE "within_90_days"

NoPrediction == [predicted_health |-> 0 - 1, urgency |-> "", maintenance_window |-> ""]

\* `predicted_health = self.models[asset_type].predict(X_scaled)[0]`
InitPredict ==
    /\ predicted_health \in 0..MaxHealth
    /\ prediction = NoPrediction
    /\ InjectorUnused
    /\ AiUnused
    /\ BackendUnused
    /\ HealthUnused /\ DetectionUnused /\ ScheduleUnused /\ AssetsUnused
    /\ WearUnused /\ BreakerUnused /\ ScalingUnused

\* `prediction = {...}`
BuildPrediction ==
    /\ prediction = NoPrediction
    /\ prediction' = [predicted_health |-> predicted_health,
                      urgency |-> urgency_of(predicted_health),
                      maintenance_window |-> calculate_maintenance_window(predicted_health)]
    /\ UNCHANGED <<predicted_health, outsidePrediction>>

NextPredict == BuildPrediction

SpecPredict == InitPredict /\ [][NextPredict]_vars

\* the band of a health value: urgency and window
Band(health) ==
    CASE health < Points(50) -> <<"critical", "immediate">>
      [] health >= Points(50) /\ health < Points(70) -> <<"high", "within_7_days">>
      [] health >= Points(70) /\ health < Points(85) -> <<"medium", "within_30_days">>
      [] health >= Points(85) -> <<"low", "within_90_days">>

\* C9: every prediction carries the urgency and the maintenance window of the
\* band its predicted health lies in: below 50 critical/immediate, [50,70)
\* high/within_7_days, [70,85) medium/within_30_days, 85 and above
\* low/within_90_days; exactly 50 is high.
C9_SameBands ==
    prediction # NoPrediction =>
        <<prediction.urgency, prediction.maintenance_window>>
            = Band(prediction.predicted_health)

\* a prediction of exactly 50 points has been built
C9_Witness ==
    /\ prediction.predicted_health = Points(50)
    /\ prediction.urgency = "high"
    /\ prediction.maintenance_window = "within_7_days"

-----------------------------------------------------------------------------
(* Backend server (src/src/backend_server.py): startup, persistence of the *)
(* bundles, and the tasks of the event loop                                *)

\* ingestion cycles in one behaviour
MaxCycles == 100

\* `if update_counter % 100 == 0`
SavePeriod == 100

\* registered assets whose telemetry is ingested, in the registry's order
Registry ==
    <<[asset_id |-> "TR1", asset_type |-> "power_transformer"],
      [asset_id |-> "TR2", asset_type |-> "power_transformer"],
      [asset_id |-> "CB_400_1", asset_type |-> "circuit_breaker"]>>

\* a bundle file is absent, unreadable, or holds a pickled object
FileStates == {"absent", "corrupt", "ok"}
File(status, obj) == [status |-> status, obj |-> obj]

\* the objects of bundles that an earlier training run left in the directory
PersistedDetector == Detector_train(SubstationAnomalyDetector, SyntheticCorpus)
PersistedPredictor == Predictor_train(SubstationPredictiveModel, SyntheticCorpus)

ModelDirectories ==
    {[anomaly_detector |-> File(a, PersistedDetector),
      predictive_maintenance |-> File(p, PersistedPredictor)] :
        a \in FileStates, p \in FileStates}

\* SubstationAIManager.__init__ up to the call of load_pretrained_models
NewManager ==
    [anomaly_detector |-> SubstationAnomalyDetector,
     predictive_model |-> SubstationPredictiveModel,
     is_initialized |-> FALSE]

\* SubstationAIManager.load_pretrained_models: one try block around both loads
load_pretrained_models(self, dir) ==
    LET a == dir.anomaly_detector
        p == dir.predictive_maintenance
        loaded_a == IF a.status = "ok"
                    THEN [self EXCEPT !.anomaly_detector = a.obj, !.is_initialized = TRUE]
                    ELSE self
    IN IF a.status = "corrupt" THEN self          \* joblib.load throws, `except` logs
       ELSE IF p.status = "corrupt" THEN loaded_a
       ELSE IF p.status = "ok"
       THEN [loaded_a EXCEPT !.predictive_model = p.obj, !.is_initialized = TRUE]
       ELSE loaded_a

\* the `def save_models` statements of class SubstationAIManager, in source order
SaveModelsDefs ==
    <<[line |-> 512, params |-> <<"self">>],
      [line |-> 771, params |-> <<"self", "filepath">>]>>

\* a class body binds a name to the last `def` of that name
BoundMethod(defs) == defs[Len(defs)]

\* the body of save_models at line 512: each trained model is dumped to its bundle
save_models_bundles(dir) ==
    [anomaly_detector |->
        IF anomaly_detector.is_trained THEN File("ok", anomaly_detector)
        ELSE dir.anomaly_detector,
     predictive_maintenance |->
        IF predictive_model.is_trained THEN File("ok", predictive_model)
        ELSE dir.predictive_maintenance]

\* ai_manager.save_models(*args): the call binds its arguments to the bound
\* method's parameters; the body at line 771 dumps one dictionary to `filepath`
\* and leaves the two bundles alone
save_models(dir, args) ==
    LET f == BoundMethod(SaveModelsDefs)
    IN IF Len(f.params) # 1 + Len(args) THEN [exc |-> "TypeError", dir |-> dir]
       ELSE IF f.line = 512 THEN [exc |-> "none", dir |-> save_models_bundles(dir)]
       ELSE [exc |-> "none", dir |-> dir]

NoSeen ==
    [detector |-> [scored |-> FALSE, model |-> 0, scaler |-> 0, threshold |-> 0],
     predictor |-> [scored |-> FALSE, model |-> 0, scaler |-> 0]]

InitBackend ==
    /\ disk \in ModelDirectories
    /\ startup = "pending"
    /\ update_counter = 0
    /\ running = "none"
    /\ updater = [pc |-> "await", asset |-> 0, model |-> "detector", fit |-> 0]
    /\ analysis = [pc |-> "await", seen |-> NoSeen]
    /\ last_save = [cycle |-> 0, outcome |-> "none"]
    /\ anomaly_detector = NewManager.anomaly_detector
    /\ predictive_model = NewManager.predictive_model
    /\ is_initialized = FALSE
    /\ optimizer = 0
    /\ arrivals = NoCounts
    /\ fired = NoCounts
    /\ result = [op |-> "none", exc |-> FALSE]
    /\ fit_errors = 0
    /\ InjectorUnused
    /\ BandsUnused
    /\ HealthUnused /\ DetectionUnused /\ ScheduleUnused /\ AssetsUnused
    /\ WearUnused /\ BreakerUnused /\ ScalingUnused

\* startup_event: the manager is constructed (which loads what it finds),
\* bootstrapped when nothing was loaded, and the tasks are created
startup_event ==
    /\ startup = "pending"
    /\ LET ai_manager == load_pretrained_models(NewManager, disk)
       IN IF ~ai_manager.is_initialized
          THEN /\ anomaly_detector' =
                      Detector_train(ai_manager.anomaly_detector, SyntheticCorpus)
               /\ predictive_model' =
                      Predictor_train(ai_manager.predictive_model, SyntheticCorpus)
          ELSE /\ anomaly_detector' = ai_manager.anomaly_detector
               /\ predictive_model' = ai_manager.predictive_model
    /\ is_initialized' = TRUE
    /\ startup' = "done"
    /\ UNCHANGED <<optimizer, arrivals, fired, result, fit_errors, disk, update_counter,
                   running, updater, analysis, last_save, outsideBackend>>

\* ---- the tasks ----
\* a scheduler that may switch tasks between any two statements, as threads do
EventLoopRuns_any_time(task) == TRUE

\* asyncio runs one task at a time and switches tasks only where the running
\* one awaits; neither update_models_online nor the scoring methods await
EventLoopRuns(task) == running \in {"none", task}

ModelOf(m) == IF m = "detector" THEN anomaly_detector ELSE predictive_model

SetModel(m, d) ==
    IF m = "detector"
    THEN anomaly_detector' = d /\ UNCHANGED predictive_model
    ELSE predictive_model' = d /\ UNCHANGED anomaly_detector

\* where update_models_online goes on after one model's update_with_new_data
AfterUpdate(m) ==
    IF m = "detector" THEN [updater EXCEPT !.pc = "buffer", !.model = "predictor"]
    ELSE [updater EXCEPT !.pc = "next_asset"]

\* asset_data_updater: `while True:` ... `if ai_manager and ai_manager.is_initialized`
Updater_wake ==
    /\ startup = "done"
    /\ EventLoopRuns("updater")
    /\ updater.pc = "await"
    /\ update_counter < MaxCycles
    /\ is_initialized
    /\ running' = "updater"
    /\ updater' = [pc |-> "buffer", asset |-> 1, model |-> "detector", fit |-> 0]
    /\ UNCHANGED <<aiVars, disk, startup, update_counter, analysis, last_save,
                   outsideBackend>>

\* a fit error that no `except` catches before the one of the ingestion loop:
\* the rest of the cycle is skipped and the task sleeps
AfterFitError_propagates ==
    [pc |-> "await", asset |-> 0, model |-> "detector", fit |-> 0]

\* where control goes when the fit throws: the `except` of
\* _retrain_single_type logs, the method returns and update_with_new_data
\* goes on to truncate the buffer
AfterFitError == [updater EXCEPT !.pc = "truncate"]

\* update_with_new_data up to the fit of _retrain_single_type
Updater_buffer ==
    /\ EventLoopRuns("updater")
    /\ updater.pc = "buffer"
    /\ LET m == updater.model
           t == Registry[updater.asset].asset_type
           d == ModelOf(m)
           appended == [d EXCEPT !.online_buffer[t] = Append(@, arrivals[m][t] + 1)]
           full == Len(appended.online_buffer[t]) >= d.buffer_size
           enough == Len(appended.online_buffer[t]) >=
                        (IF m = "detector" THEN DetectorRetrainMin
                         ELSE PredictorRetrainMin)
           g == IF m = "detector" THEN DetectorFit(d, t) ELSE PredictorFit(d, t)
       IN /\ SetModel(m, appended)
          /\ arrivals' = [arrivals EXCEPT ![m][t] = @ + 1]
          /\ fired' = [fired EXCEPT ![m][t] = @ + (IF full THEN 1 ELSE 0)]
          /\ IF ~full
             THEN updater' = AfterUpdate(m) /\ UNCHANGED fit_errors
             ELSE \/ /\ updater' = IF enough
                                   THEN [updater EXCEPT !.pc = "write_models", !.fit = g]
                                   ELSE [updater EXCEPT !.pc = "truncate"]
                     /\ UNCHANGED fit_errors
                  \/ /\ fit_errors < MaxFitErrors
                     /\ fit_errors' = fit_errors + 1
                     /\ updater' = AfterFitError
    /\ running' = IF updater'.pc = "await" THEN "none" ELSE "updater"
    /\ UNCHANGED <<optimizer, is_initialized, result, disk, startup, update_counter,
                   analysis, last_save, outsideBackend>>

\* one of the three assignments that end _retrain_single_type
Updater_write ==
    /\ EventLoopRuns("updater")
    /\ updater.pc \in {"write_models", "write_scalers", "write_last"}
    /\ LET m == updater.model
           t == Registry[updater.asset].asset_type
           d == ModelOf(m)
           g == updater.fit
       IN CASE updater.pc = "write_models" ->
                 /\ SetModel(m, [d EXCEPT !.models[t] = g])
                 /\ updater' = [updater EXCEPT !.pc = "write_scalers"]
            [] updater.pc = "write_scalers" ->
                 /\ SetModel(m, [d EXCEPT !.scalers[t] = g])
                 /\ updater' = [updater EXCEPT !.pc = "write_last"]
            [] updater.pc = "write_last" ->
                 /\ SetModel(m, IF m = "detector"
                                THEN [d EXCEPT !.thresholds[t] = g]
                                ELSE [d EXCEPT !.feature_importance[t] = g])
                 /\ updater' = [updater EXCEPT !.pc = "truncate"]
    /\ running' = "updater"
    /\ UNCHANGED <<optimizer, is_initialized, arrivals, fired, result, fit_errors, disk,
                   startup, update_counter, analysis, last_save, outsideBackend>>

\* `self.online_buffer[asset_type] = self.online_buffer[asset_type][-keep_size:]`
Updater_truncate ==
    /\ EventLoopRuns("updater")
    /\ updater.pc = "truncate"
    /\ LET m == updater.model
           t == Registry[updater.asset].asset_type
           d == ModelOf(m)
       IN /\ SetModel(m, [d EXCEPT !.online_buffer[t] =
                                       LastItems(@, KeepSize(d.buffer_size))])
          /\ updater' = [AfterUpdate(m) EXCEPT !.fit = 0]
    /\ running' = "updater"
    /\ UNCHANGED <<optimizer, is_initialized, arrivals, fired, result, fit_errors, disk,
                   startup, update_counter, analysis, last_save, outsideBackend>>

\* `for asset_id, asset in asset_manager.assets.items()`
Updater_next_asset ==
    /\ EventLoopRuns("updater")
    /\ updater.pc = "next_asset"
    /\ updater' = IF updater.asset < Len(Registry)
                  THEN [updater EXCEPT !.pc = "buffer", !.model = "detector",
                                       !.asset = @ + 1]
                  ELSE [updater EXCEPT !.pc = "count"]
    /\ running' = "updater"
    /\ UNCHANGED <<aiVars, disk, startup, update_counter, analysis, last_save,
                   outsideBackend>>

\* `update_counter += 1`, the periodic save, and the sleep (or the `except`
\* clause of the loop and its sleep)
Updater_count_and_save ==
    /\ EventLoopRuns("updater")
    /\ updater.pc = "count"
    /\ update_counter' = update_counter + 1
    /\ IF update_counter' % SavePeriod = 0
       THEN LET r == save_models(disk, <<>>)
            IN /\ disk' = r.dir
               /\ last_save' = [cycle |-> update_counter',
                                outcome |-> IF r.exc = "none" THEN "saved" ELSE r.exc]
       ELSE UNCHANGED <<disk, last_save>>
    /\ updater' = [pc |-> "await", asset |-> 0, model |-> "detector", fit |-> 0]
    /\ running' = "none"
    /\ UNCHANGED <<aiVars, startup, analysis, outsideBackend>>

\* the asset whose reading the analysis task scores
AnalysedAsset == Registry[1]

\* the analysis task calls analyze_current_state, which is past its
\* `if not self.is_initialized` test
Analysis_wake ==
    /\ startup = "done"
    /\ EventLoopRuns("analysis")
    /\ analysis.pc = "await"
    /\ optimizer < MaxHistory
    /\ is_initialized
    /\ running' = "analysis"
    /\ analysis' = [pc |-> "detect", seen |-> NoSeen]
    /\ UNCHANGED <<aiVars, disk, startup, update_counter, updater, last_save,
                   outsideBackend>>

\* one test or one dictionary read of detect_anomalies, then of
\* predict_health_degradation; a missing key throws inside the inner try and
\* the asset is skipped
Analysis_read ==
    /\ EventLoopRuns("analysis")
    /\ analysis.pc \in {"detect", "d_scaler", "d_model", "d_threshold",
                        "predict", "p_scaler", "p_model"}
    /\ LET t == AnalysedAsset.asset_type
           det == anomaly_detector
           pre == predictive_model
           goto(pc) == [analysis EXCEPT !.pc = pc]
       IN analysis' =
            CASE analysis.pc = "detect" ->
                   IF det.is_trained /\ det.models[t] # 0
                   THEN goto("d_scaler") ELSE goto("predict")
              [] analysis.pc = "d_scaler" ->
                   IF det.scalers[t] = 0 THEN goto("predict")
                   ELSE [goto("d_model") EXCEPT !.seen.detector.scaler = det.scalers[t]]
              [] analysis.pc = "d_model" ->
                   IF det.models[t] = 0 THEN goto("predict")
                   ELSE [goto("d_threshold") EXCEPT !.seen.detector.model = det.models[t]]
              [] analysis.pc = "d_threshold" ->
                   IF det.thresholds[t] = 0 THEN goto("predict")
                   ELSE [goto("predict") EXCEPT
                            !.seen.detector.threshold = det.thresholds[t],
                            !.seen.detector.scored = TRUE]
              [] analysis.pc = "predict" ->
                   IF pre.is_trained /\ pre.models[t] # 0
                   THEN goto("p_scaler") ELSE goto("done")
              [] analysis.pc = "p_scaler" ->
                   IF pre.scalers[t] = 0 THEN goto("done")
                   ELSE [goto("p_model") EXCEPT !.seen.predictor.scaler = pre.scalers[t]]
              [] analysis.pc = "p_model" ->
                   IF pre.models[t] = 0 THEN goto("done")
                   ELSE [goto("done") EXCEPT
                            !.seen.predictor.model = pre.models[t],
                            !.seen.predictor.scored = TRUE]
    /\ running' = "analysis"
    /\ UNCHANGED <<aiVars, disk, startup, update_counter, updater, last_save,
                   outsideBackend>>

\* optimize_power_flow appends to the history, analyze_current_state returns
\* and the task awaits
Analysis_done ==
    /\ EventLoopRuns("analysis")
    /\ analysis.pc = "done"
    /\ optimizer' = optimize_power_flow(optimizer, "dict")
    /\ analysis' = [analysis EXCEPT !.pc = "await"]
    /\ running' = "none"
    /\ UNCHANGED <<anomaly_detector, predictive_model, is_initialized, arrivals, fired,
                   result, fit_errors, disk, startup, update_counter, updater,
                   last_save, outsideBackend>>

NextBackend ==
    \/ startup_event
    \/ Updater_wake
    \/ Updater_buffer
    \/ Updater_write
    \/ Updater_truncate
    \/ Updater_next_asset
    \/ Updater_count_and_save
    \/ Analysis_wake
    \/ Analysis_read
    \/ Analysis_done

SpecBackend == InitBackend /\ [][NextBackend]_vars

-----------------------------------------------------------------------------
(* Properties of the backend                                               *)

C6_PeriodicSaveSucceeds ==
    (startup = "done" /\ update_counter > 0 /\ update_counter % SavePeriod = 0
        /\ updater.pc = "await")
      => /\ last_save = [cycle |-> update_counter, outcome |-> "saved"]
         /\ disk.anomaly_detector = File("ok", anomaly_detector)
         /\ disk.predictive_maintenance = File("ok", predictive_model)

\* C7: when startup has returned, the detector and the predictor are trained.
C7_BothTrainedAfterStartup ==
    startup = "done" => (anomaly_detector.is_trained /\ predictive_model.is_trained)

\* everything the two models hold for one asset type
TypeSlice(t) ==
    <<anomaly_detector.online_buffer[t], anomaly_detector.models[t],
      anomaly_detector.scalers[t], anomaly_detector.thresholds[t],
      predictive_model.online_buffer[t], predictive_model.models[t],
      predictive_model.scalers[t], predictive_model.feature_importance[t]>>

\* the ingestion task is inside update_models_online for one asset
InUpdateModelsOnline ==
    updater.pc \in {"buffer", "write_models", "write_scalers", "write_last", "truncate"}

\* registered assets of one type
RegisteredCount(t) ==
    Cardinality({k \in 1..Len(Registry) : Registry[k].asset_type = t})

\* retrains that n observations of one type have triggered: the first when the
\* buffer holds buffer_size, then one every buffer_size - keep_size
FillsAfter(n, buffer_size) ==
    IF n < buffer_size THEN 0
    ELSE 1 + (n - buffer_size) \div (buffer_size - KeepSize(buffer_size))

\* every step of update_models_online for an asset of one type leaves what the
\* models hold for every other type as it was
OtherTypesUntouched ==
    \A t \in AssetTypes :
        (InUpdateModelsOnline /\ Registry[updater.asset].asset_type # t)
            => TypeSlice(t)' = TypeSlice(t)

\* whatever retrain has failed, every type has had each of its observations
\* buffered and each of its full buffers has triggered its retrain
UpdatesGoOn ==
    /\ updater.pc = "await" =>
          \A t \in AssetTypes :
              /\ arrivals.detector[t] = RegisteredCount(t) * update_counter
              /\ arrivals.predictor[t] = RegisteredCount(t) * update_counter
    /\ \A t \in AssetTypes :
          /\ fired.detector[t] = FillsAfter(arrivals.detector[t], DetectorBufferSize)
          /\ fired.predictor[t] = FillsAfter(arrivals.predictor[t], PredictorBufferSize)

\* C13: update_models_online for an asset of one type leaves the buffers,
\* models, scalers, thresholds and feature importances of every other type
\* unchanged; and after a retrain of one type has failed, the observations of
\* the other types are still buffered and their full buffers still retrain.
C13_RetrainsAreLocal == [][OtherTypesUntouched]_vars /\ []UpdatesGoOn

\* one of the two detector retrains of power_transformer has failed, and the
\* detector of circuit_breaker, whose buffer filled later, was retrained
C13_Witness ==
    /\ fit_errors >= 1
    /\ fired.detector["power_transformer"] = 2
    /\ anomaly_detector.models["power_transformer"] = 1
    /\ fired.detector["circuit_breaker"] = 1
    /\ anomaly_detector.models["circuit_breaker"] = 1
    /\ Len(anomaly_detector.online_buffer["circuit_breaker"]) = KeepSize(DetectorBufferSize)

\* update_with_new_data of one model is between its append and its return for
\* the asset type of the asset being ingested
InUpdateWithNewData(m, t) ==
    /\ updater.pc \in {"write_models", "write_scalers", "write_last", "truncate"}
    /\ updater.model = m
    /\ Registry[updater.asset].asset_type = t

\* C15: the online buffer of a type never holds more than buffer_size
\* observations, and once update_with_new_data has returned (its retrain
\* having succeeded, been skipped or failed) it holds fewer than buffer_size,
\* for the detector and for the predictive model.
C15_BufferBelowCapacity ==
    \A t \in AssetTypes :
        /\ Len(anomaly_detector.online_buffer[t]) <= anomaly_detector.buffer_size
        /\ Len(predictive_model.online_buffer[t]) <= predictive_model.buffer_size
        /\ ~InUpdateWithNewData("detector", t) =>
              Len(anomaly_detector.online_buffer[t]) < anomaly_detector.buffer_size
        /\ ~InUpdateWithNewData("predictor", t) =>
              Len(predictive_model.online_buffer[t]) < predictive_model.buffer_size

\* the cycle has ended in which the detector's retrain of power_transformer
\* failed: its buffer was cut to the last 20 all the same
C15_Witness ==
    /\ updater.pc = "await"
    /\ fit_errors >= 1
    /\ fired.detector["power_transformer"] = 1
    /\ anomaly_detector.models["power_transformer"] = 0
    /\ Len(anomaly_detector.online_buffer["power_transformer"])
          = KeepSize(DetectorBufferSize)

-----------------------------------------------------------------------------
(* AssetHealth.calculate_health_score (src/src/models/asset_models.py)     *)
(* Scores are exact rationals, in units of 1/HealthScale of a health       *)
(* point; degradation_rate is in hundredths of a percent per day, and      *)
(* last_maintenance is the set holding the days since that date, or {}     *)
(* for None.                                                               *)

\* the largest magnitudes of the arguments of a call
MaxHours == 10000000
MaxFaults == 1000
MaxRate == 1000
MaxDays == 1000

HoursPerYear == 8760
\* a common denominator of hours / 8760 and of the weights 0.7 and 0.3
HealthScale == HoursPerYear * 10

Min2(a, b) == IF a <= b THEN a ELSE b

\* `days_since_maintenance = 30`, or the days since self.last_maintenance
DaysSinceMaintenance(self) ==
    IF self.last_maintenance = {} THEN 30
    ELSE CHOOSE d \in self.last_maintenance : TRUE

\* base_health - degradation
RawHealth(self, operational_hours, fault_count) ==
    LET age_factor == Max2(0, 100 * HoursPerYear - operational_hours * 5)
        fault_factor == Max2(0, 100 - fault_count * 2)
        base_health == age_factor * 7 + fault_factor * 3 * HoursPerYear
        degradation ==
            Min2(20 * 100, DaysSinceMaintenance(self) * self.degradation_rate)
    IN base_health - degradation * (HealthScale \div 100)

\* the score without the final max(0, min(100, ...))
calculate_health_score_unclamped(self, operational_hours, fault_count) ==
    RawHealth(self, operational_hours, fault_count)

\* AssetHealth.calculate_health_score
calculate_health_score(self, operational_hours, fault_count) ==
    Max2(0, Min2(100 * HealthScale, RawHealth(self, operational_hours, fault_count)))

\* AssetHealth(): degradation_rate 0.01, last_maintenance None
AssetHealth == [overall_health |-> 100 * HealthScale, degradation_rate |-> 1,
                last_maintenance |-> {}]

\* arguments and fields of a call: zero, negative, usual and very large values
HoursInputs == {0 - MaxHours, 0 - 1, 0, 1000, 49999, 1752000, MaxHours}
FaultInputs == {0 - MaxFaults, 0, 1, 50, 51, MaxFaults}
RateInputs == {0 - MaxRate, 0, 1, 100, MaxRate}
MaintenanceInputs == {{}, {0 - MaxDays}, {0}, {30}, {365}, {MaxDays}}

NoHealthCall ==
    [called |-> FALSE, self |-> AssetHealth, operational_hours |-> 0,
     fault_count |-> 0, score |-> 0]

InitHealth ==
    /\ health_call = NoHealthCall
    /\ InjectorUnused /\ AiUnused /\ BandsUnused /\ BackendUnused
    /\ DetectionUnused /\ ScheduleUnused /\ AssetsUnused
    /\ WearUnused /\ BreakerUnused /\ ScalingUnused

Call_calculate_health_score ==
    \E operational_hours \in HoursInputs, fault_count \in FaultInputs,
       degradation_rate \in RateInputs, last_maintenance \in MaintenanceInputs :
        LET self == [AssetHealth EXCEPT !.degradation_rate = degradation_rate,
                                        !.last_maintenance = last_maintenance]
        IN /\ health_call' =
                 [called |-> TRUE, self |-> self,
                  operational_hours |-> operational_hours, fault_count |-> fault_count,
                  score |-> calculate_health_score(self, operational_hours, fault_count)]
           /\ UNCHANGED outsideHealth

NextHealth == Call_calculate_health_score

SpecHealth == InitHealth /\ [][NextHealth]_vars

\* C16: calculate_health_score returns a value between 0 and 100 for every
\* operational_hours, fault_count, degradation_rate and last_maintenance,
\* zero, negative and very large values included.
C16_ScoreInRange ==
    health_call.called =>
        (0 <= health_call.score /\ health_call.score <= 100 * HealthScale)

\* negative operating hours put base_health above 100 and the score is 100
C16_Witness ==
    /\ health_call.called
    /\ health_call.operational_hours < 0
    /\ RawHealth(health_call.self, health_call.operational_hours,
                 health_call.fault_count) > 100 * HealthScale
    /\ health_call.score = 100 * HealthScale

-----------------------------------------------------------------------------
(* Registered assets, their telemetry and alarms                           *)
(* (src/src/models/asset_models.py, asset_data_updater of the backend)     *)
(* Temperatures are in tenths of a degree Celsius; a timestamp is the      *)
(* number of the update that wrote it.                                     *)

\* cycles of asset_data_updater in one behaviour
MaxTicks == 3

\* ThermalParameters(): temperature_celsius 25.0, max_temperature_celsius 85.0
ThermalParameters == [temperature_celsius |-> 250, max_temperature_celsius |-> 850]

\* MechanicalParameters(): vibration_level_mm_s 0.5, max_vibration_mm_s 5.0
MechanicalParameters == [vibration_level_mm_s |-> 5, max_vibration_mm_s |-> 50]

\* np.random.randint(1000, 50000)
OperatingHours == {1000, 49999}

\* "winding_temp": 70 + np.random.normal(0, 3)
WindingTemps == {700, 765, 766, 800}

\* BaseAsset.__init__ as PowerTransformer and CircuitBreaker call it
BaseAsset(class, asset_type, operational_hours) ==
    [class |-> class, asset_type |-> asset_type, health |-> AssetHealth,
     thermal |-> ThermalParameters, mechanical |-> MechanicalParameters,
     operational_hours |-> operational_hours, fault_history |-> <<>>,
     real_time_data |-> [timestamp |-> 0, winding_temp |-> {}],
     alarms |-> <<>>]

AssetIds == {"TR1", "CB_400_1"}

\* add_alarm: the alarm dictionary, with the value its description quotes
Alarm(type, severity, value) ==
    [type |-> type, severity |-> severity, value |-> value, acknowledged |-> FALSE]

\* `temperature_celsius > max_temperature_celsius * 0.9`
TemperatureAlarmCondition(thermal) ==
    thermal.temperature_celsius * 10 > thermal.max_temperature_celsius * 9

\* `vibration_level_mm_s > max_vibration_mm_s * 0.8`
VibrationAlarmCondition(mechanical) ==
    mechanical.vibration_level_mm_s * 10 > mechanical.max_vibration_mm_s * 8

\* BaseAsset.check_alarms
check_alarms(asset) ==
    LET with_temperature ==
            IF TemperatureAlarmCondition(asset.thermal)
            THEN Append(asset.alarms,
                        Alarm("HIGH_TEMPERATURE", "critical",
                              asset.thermal.temperature_celsius))
            ELSE asset.alarms
    IN [asset EXCEPT !.alarms =
            IF VibrationAlarmCondition(asset.mechanical)
            THEN Append(with_temperature,
                        Alarm("HIGH_VIBRATION", "warning",
                              asset.mechanical.vibration_level_mm_s))
            ELSE with_temperature]

\* BaseAsset.update_real_time_data: `data` holds a winding temperature or not
update_real_time_data(asset, data) ==
    check_alarms([asset EXCEPT
        !.real_time_data.winding_temp = IF data = {} THEN @ ELSE data,
        !.real_time_data.timestamp = @ + 1])

\* the block of simulate_asset_measurements for one asset
simulate_asset(asset, winding_temp) ==
    IF asset.class = "PowerTransformer"
    THEN LET updated == update_real_time_data(asset, {winding_temp})
         IN [updated EXCEPT !.thermal.temperature_celsius =
                CHOOSE w \in updated.real_time_data.winding_temp : TRUE]
    ELSE update_real_time_data(asset, {})

\* SubstationAssetManager.simulate_asset_measurements
simulate_asset_measurements(manager, winding_temp) ==
    [id \in AssetIds |-> simulate_asset(manager[id], winding_temp)]

NoTelemetry == [sent |-> FALSE, asset_type |-> "", temperature |-> 0, health_score |-> 0]

\* the asset_data dictionary that asset_data_updater builds for one asset
AssetData(asset) ==
    [sent |-> TRUE, asset_type |-> asset.asset_type,
     temperature |-> asset.thermal.temperature_celsius,
     health_score |-> asset.health.overall_health]

InitAssets ==
    /\ \E h1 \in OperatingHours, h2 \in OperatingHours :
          asset_manager =
              [id \in AssetIds |->
                  IF id = "TR1" THEN BaseAsset("PowerTransformer", "power_transformer", h1)
                  ELSE BaseAsset("CircuitBreaker", "circuit_breaker", h2)]
    /\ telemetry = [id \in AssetIds |-> NoTelemetry]
    /\ InjectorUnused /\ AiUnused /\ BandsUnused /\ BackendUnused
    /\ HealthUnused /\ DetectionUnused /\ ScheduleUnused
    /\ WearUnused /\ BreakerUnused /\ ScalingUnused

\* one cycle of asset_data_updater while ai_manager is not initialized
Cycle_without_models ==
    /\ \A id \in AssetIds : asset_manager[id].real_time_data.timestamp < MaxTicks
    /\ telemetry = [id \in AssetIds |-> NoTelemetry]
    /\ \E winding_temp \in WindingTemps :
          asset_manager' = simulate_asset_measurements(asset_manager, winding_temp)
    /\ UNCHANGED <<telemetry, outsideAssets>>

\* one cycle of asset_data_updater with online learning
Cycle_with_models ==
    /\ \A id \in AssetIds : asset_manager[id].real_time_data.timestamp < MaxTicks
    /\ \E winding_temp \in WindingTemps :
          asset_manager' = simulate_asset_measurements(asset_manager, winding_temp)
    /\ telemetry' = [id \in AssetIds |-> AssetData(asset_manager'[id])]
    /\ UNCHANGED outsideAssets

NextAssets ==
    \/ Cycle_without_models
    \/ Cycle_with_models

SpecAssets == InitAssets /\ [][NextAssets]_vars

\* the score that calculate_health_score gives for the asset as it is
RecomputedHealth(asset) ==
    calculate_health_score(asset.health, asset.operational_hours,
                           Len(asset.fault_history))

\* C17: after every telemetry update of an asset its health.overall_health is
\* the score recomputed from operating hours, fault count and time since
\* maintenance, and the health_score that ingestion passes to
\* update_models_online is that recomputed value.
C17_HealthRecomputed ==
    \A id \in AssetIds :
        /\ asset_manager[id].real_time_data.timestamp > 0 =>
              asset_manager[id].health.overall_health
                  = RecomputedHealth(asset_manager[id])
        /\ telemetry[id].sent =>
              telemetry[id].health_score = RecomputedHealth(asset_manager[id])

\* the update of one asset that a step makes
Updated(id) ==
    asset_manager'[id].real_time_data.timestamp
        # asset_manager[id].real_time_data.timestamp

\* C18: a telemetry update that brings the temperature above 90% of
\* max_temperature appends, in that same update, a temperature alarm with
\* acknowledged = False to the asset's alarm list.
C18_AlarmInSameUpdate ==
    [][\A id \in AssetIds :
          (Updated(id) /\ TemperatureAlarmCondition(asset_manager'[id].thermal))
            => /\ Len(asset_manager'[id].alarms) = Len(asset_manager[id].alarms) + 1
               /\ asset_manager'[id].alarms[Len(asset_manager'[id].alarms)]
                    = Alarm("HIGH_TEMPERATURE", "critical",
                            asset_manager'[id].thermal.temperature_celsius)]_vars

-----------------------------------------------------------------------------
(* The flag and the severity of a scored reading                           *)
(* (SubstationAnomalyDetector.detect_anomalies, lines 98-111)              *)
(* Scores and thresholds are integers of one unit; half a threshold is     *)
(* compared exactly, as 2 * score against the threshold.                   *)

\* the largest magnitude of a score and of a threshold
MaxScore == 4
ScoreValues == (0 - MaxScore)..MaxScore

\* the assets of one type in current_data, in the dictionary's order
ScoredAssets == <<"TR1", "TR2">>

\* `is_anomaly = score < self.thresholds[asset_type]`
is_anomaly(score, threshold) == score < threshold

\* a severity rule that is 'high' at half the threshold too
severity_inclusive(score, threshold) ==
    IF score * 2 <= threshold THEN "high" ELSE "medium"

\* `'high' if score < self.thresholds[asset_type] * 0.5 else 'medium'`
severity(score, threshold) ==
    IF score * 2 < threshold THEN "high" ELSE "medium"

RECURSIVE FlagScores(_, _, _)
\* the loop of detect_anomalies over readings whose scores are given
FlagScores(scores, threshold, k) ==
    IF k > Len(ScoredAssets) THEN <<>>
    ELSE (IF is_anomaly(scores[k], threshold)
          THEN <<[asset_id |-> ScoredAssets[k], anomaly_score |-> scores[k],
                  severity |-> severity(scores[k], threshold)]>>
          ELSE <<>>)
         \o FlagScores(scores, threshold, k + 1)

NoDetection ==
    [called |-> FALSE, threshold |-> 0, scores |-> <<0, 0>>, anomalies |-> <<>>]

InitSeverity ==
    /\ detection = NoDetection
    /\ InjectorUnused /\ AiUnused /\ BandsUnused /\ BackendUnused
    /\ HealthUnused /\ ScheduleUnused /\ AssetsUnused
    /\ WearUnused /\ BreakerUnused /\ ScalingUnused

\* detect_anomalies on two readings of one trained type
Call_detect_anomalies_scored ==
    \E threshold \in ScoreValues, s1 \in ScoreValues, s2 \in ScoreValues :
        /\ detection' = [called |-> TRUE, threshold |-> threshold,
                         scores |-> <<s1, s2>>,
                         anomalies |-> FlagScores(<<s1, s2>>, threshold, 1)]
        /\ UNCHANGED outsideDetection

NextSeverity == Call_detect_anomalies_scored

SpecSeverity == InitSeverity /\ [][NextSeverity]_vars

\* the asset ids of the readings whose score is strictly below the threshold
BelowThreshold(scores, threshold) ==
    SelectSeq(ScoredAssets,
              LAMBDA id : \E k \in 1..Len(ScoredAssets) :
                             ScoredAssets[k] = id /\ scores[k] < threshold)

\* C19: for every threshold, positive, zero or negative, detect_anomalies
\* reports exactly the readings whose score is strictly below the threshold,
\* with severity 'high' exactly when the score is strictly below half the
\* threshold and 'medium' otherwise; so a 'high' anomaly never has a higher
\* score than a 'medium' anomaly of the same type.
C19_SeverityRule ==
    detection.called =>
        /\ Ids(detection.anomalies)
              = BelowThreshold(detection.scores, detection.threshold)
        /\ \A k \in 1..Len(detection.anomalies) :
              LET a == detection.anomalies[k]
              IN /\ a.severity \in {"high", "medium"}
                 /\ a.severity = "high" <=> a.anomaly_score * 2 < detection.threshold
        /\ \A h, m \in 1..Len(detection.anomalies) :
              (detection.anomalies[h].severity = "high"
                 /\ detection.anomalies[m].severity = "medium")
                => detection.anomalies[h].anomaly_score
                     <= detection.anomalies[m].anomaly_score

\* one call reports a 'high' and a 'medium' anomaly
C19_Witness ==
    /\ detection.called
    /\ \E h, m \in 1..Len(detection.anomalies) :
          /\ detection.anomalies[h].severity = "high"
          /\ detection.anomalies[m].severity = "medium"

-----------------------------------------------------------------------------
(* SubstationOptimizer.optimize_maintenance_schedule (lines 441-464)       *)
(* A prediction is identified by its position in the list that             *)
(* predict_health_degradation returned.                                    *)

\* predictions in one call
MaxPredictions == 4

\* the values predict_health_degradation gives to 'urgency'
Urgencies == {"critical", "high", "medium", "low"}

\* the predictions of a call, in the order of the list
Predictions(urgencies) ==
    [k \in 1..Len(urgencies) |-> [asset_id |-> k, urgency |-> urgencies[k]]]

\* `[a for a in asset_predictions if a['urgency'] == urgency]`
WithUrgency(asset_predictions, urgency) ==
    SelectSeq(asset_predictions, LAMBDA a : a.urgency = urgency)

\* a schedule whose windows are cumulative: 'within_7_days' holds the critical
\* predictions too, 'within_30_days' holds all three
optimize_maintenance_schedule_cumulative(asset_predictions) ==
    LET critical_assets == WithUrgency(asset_predictions, "critical")
        high_priority_assets ==
            SelectSeq(asset_predictions, LAMBDA a : a.urgency \in {"critical", "high"})
        medium_priority_assets ==
            SelectSeq(asset_predictions, LAMBDA a : a.urgency # "low")
    IN [immediate |-> critical_assets, within_7_days |-> high_priority_assets,
        within_30_days |-> medium_priority_assets,
        total_assets |-> Len(asset_predictions),
        critical_count |-> Len(critical_assets),
        high_priority_count |-> Len(high_priority_assets),
        medium_priority_count |-> Len(medium_priority_assets)]

\* SubstationOptimizer.optimize_maintenance_schedule
optimize_maintenance_schedule(asset_predictions) ==
    LET critical_assets == WithUrgency(asset_predictions, "critical")
        high_priority_assets == WithUrgency(asset_predictions, "high")
        medium_priority_assets == WithUrgency(asset_predictions, "medium")
    IN [immediate |-> critical_assets, within_7_days |-> high_priority_assets,
        within_30_days |-> medium_priority_assets,
        total_assets |-> Len(asset_predictions),
        critical_count |-> Len(critical_assets),
        high_priority_count |-> Len(high_priority_assets),
        medium_priority_count |-> Len(medium_priority_assets)]

NoSchedule ==
    [called |-> FALSE, input |-> <<>>, output |-> optimize_maintenance_schedule(<<>>)]

InitSchedule ==
    /\ schedule = NoSchedule
    /\ InjectorUnused /\ AiUnused /\ BandsUnused /\ BackendUnused
    /\ HealthUnused /\ DetectionUnused /\ AssetsUnused
    /\ WearUnused /\ BreakerUnused /\ ScalingUnused

\* analyze_current_state passes the predictions to the optimizer
Call_optimize_maintenance_schedule ==
    \E n \in 0..MaxPredictions :
    \E urgencies \in [1..n -> Urgencies] :
        /\ schedule' = [called |-> TRUE, input |-> Predictions(urgencies),
                        output |-> optimize_maintenance_schedule(Predictions(urgencies))]
        /\ UNCHANGED outsideSchedule

NextSchedule == Call_optimize_maintenance_schedule

SpecSchedule == InitSchedule /\ [][NextSchedule]_vars

Buckets == {"immediate", "within_7_days", "within_30_days"}

\* the window the claim assigns to an urgency
BucketFor(urgency) ==
    CASE urgency = "critical" -> "immediate"
      [] urgency = "high" -> "within_7_days"
      [] urgency = "medium" -> "within_30_days"
      [] OTHER -> "none"

Occurrences(items, a) == Cardinality({k \in 1..Len(items) : items[k] = a})

\* C20: every 'critical' prediction is in 'immediate', every 'high' one in
\* 'within_7_days', every 'medium' one in 'within_30_days' and a 'low' one in
\* no bucket, each once, in no other bucket, and in input order; the three
\* counts are the sizes of the buckets, total_assets is the number of
\* predictions, and the counts sum to total_assets minus the 'low' predictions.
C20_ScheduleBuckets ==
    schedule.called =>
        LET input == schedule.input
            out == schedule.output
        IN /\ \A i \in 1..Len(input) : \A b \in Buckets :
                 Occurrences(out[b], input[i])
                    = (IF b = BucketFor(input[i].urgency) THEN 1 ELSE 0)
           /\ \A b \in Buckets :
                 /\ \A j \in 1..Len(out[b]) : Occurrences(input, out[b][j]) = 1
                 /\ \A j, k \in 1..Len(out[b]) :
                       j < k => out[b][j].asset_id < out[b][k].asset_id
           /\ out.critical_count = Len(out.immediate)
           /\ out.high_priority_count = Len(out.within_7_days)
           /\ out.medium_priority_count = Len(out.within_30_days)
           /\ out.total_assets = Len(input)
           /\ out.critical_count + out.high_priority_count + out.medium_priority_count
                 = out.total_assets - Len(WithUrgency(input, "low"))

\* a call with predictions of all four urgencies
C20_Witness ==
    /\ schedule.called
    /\ \A u \in Urgencies : \E i \in 1..Len(schedule.input) : schedule.input[i].urgency = u
    /\ schedule.output.total_assets = 4
    /\ schedule.output.critical_count = 1

-----------------------------------------------------------------------------
(* Further properties of the injector and of the manager                   *)

\* C22: every severity the injector records on a disturbed sample lies in
\* [0,1] (0..100 in hundredths), for every magnitude the serving layer passes,
\* the voltage_swell request that calls inject_voltage_sag with 1.1 or 1.2
\* included.
C22_SeverityInUnitInterval ==
    \A s \in state.severity : 0 <= s /\ s <= 100

\* C24: right after initialize_with_synthetic_data, every asset_type value that
\* telemetry of a registered asset carries has a trained anomaly model and a
\* trained predictive model, so detect and predict skip no registered asset
\* for lack of a model of its type.
C24_RegisteredTypesHaveModels ==
    result.op = "initialize_with_synthetic_data" =>
        \A t \in RegisteredTypes :
            /\ anomaly_detector.models[t] # 0
            /\ predictive_model.models[t] # 0

\* control is about to enter a primitive: from a scenario or a dataset sample
\* (the call statement is next), or from the serving layer (no call is running)
PrimitiveAboutToStart ==
    \/ prog # <<>> /\ Head(prog).op = "call" /\ Head(prog).el \in InjectionPrimitives
    \/ outcome # "running"

\* C25: in every exception-free run of primitives and named scenarios, called
\* directly, from generate_anomaly_dataset or one from inside another, a
\* primitive starts from an engine in which every earlier disturbance has been
\* disabled or restored and which has been re-solved after the last clearing
\* command: never from a cleared but unsolved state, never with another
\* disturbance still enabled.
C25_PrimitivesStartClean ==
    (raised = 0 /\ PrimitiveAboutToStart) => (dss.solved /\ ~Disturbed(dss))

\* the observations of a buffer that the next state's buffer no longer holds
Dropped(buffer, next_buffer) ==
    {buffer[k] : k \in 1..Len(buffer)} \ {next_buffer[k] : k \in 1..Len(next_buffer)}

\* a step in which a buffer loses observations is a step whose retrain
\* succeeded: it installed a model fitted on the buffer that held them
ObservationsDroppedOnlyWhenTrained ==
    \A t \in AssetTypes :
        /\ Dropped(anomaly_detector.online_buffer[t],
                   anomaly_detector'.online_buffer[t]) # {}
              => anomaly_detector'.models[t] > anomaly_detector.models[t]
        /\ Dropped(predictive_model.online_buffer[t],
                   predictive_model'.online_buffer[t]) # {}
              => predictive_model'.models[t] > predictive_model.models[t]

\* C26: no buffered online observation is discarded without having been part
\* of the training set of a successful retrain: when the retrain that a full
\* buffer triggers is skipped or fails, the observations that truncation
\* removes are still in the buffer for the next attempt.
C26_NoObservationLostUntrained == [][ObservationsDroppedOnlyWhenTrained]_vars

\* the manager that SubstationAIManager() on the same model directory builds
Reconstructed == load_pretrained_models(NewManager, disk)

\* C28: persistence round-trips through construction: once the periodic save
\* of the running manager has run, constructing a new SubstationAIManager on
\* the same model location loads a detector and a predictor with the per-type
\* models, scalers and thresholds of the saved ones, and is_initialized is True.
C28_SaveLoadRoundTrip ==
    (startup = "done" /\ update_counter > 0 /\ update_counter % SavePeriod = 0
        /\ updater.pc = "await")
      => /\ Reconstructed.is_initialized
         /\ Reconstructed.anomaly_detector = anomaly_detector
         /\ Reconstructed.predictive_model = predictive_model

\* the elements a primitive creates with `new` as its disturbance
DisturbanceElements(primitive) ==
    CASE primitive = "inject_voltage_sag" -> {"fault.sag_A", "fault.sag_B", "fault.sag_C"}
      [] primitive = "inject_harmonic_distortion" ->
            {"isource.harm_3", "isource.harm_5", "isource.harm_7"}
      [] primitive = "inject_transformer_overload" -> {"load.overload_TR1"}
      [] primitive = "inject_ground_fault" -> {"fault.gnd_fault"}
      [] OTHER -> {}

\* C29: every invocation of an injection primitive that runs without an
\* exception, a repeat invocation that reuses the element names of an earlier
\* one included, captured its snapshot while its disturbance elements were
\* enabled: the earlier clear step, which disables the elements and leaves
\* them defined, never makes a later injection record an undisturbed state.
C29_SnapshotTakenDisturbed ==
    (raised = 0 /\ AtPrimitiveReturn /\ state.captured)
        => DisturbanceElements(state.by) \subseteq state.enabled

-----------------------------------------------------------------------------
(* ThermalParameters.calculate_thermal_stress and                          *)
(* MechanicalParameters.calculate_mechanical_wear                          *)
(* (src/src/models/asset_models.py, lines 117-143)                         *)
(* A result is the exact fraction num / den with den > 0.  Temperatures    *)
(* are in tenths of a degree, vibration levels in halves of a mm/s.        *)

\* the highest temperature, operating-cycle count, vibration and noise level
MaxTemperature == 2000
MaxOperatingCycles == 30000
MaxVibration == 30
MaxNoise == 120

\* calculate_thermal_stress: temp_ratio is temperature / max_temperature, and
\* the bands are temp_ratio < 0.7, temp_ratio < 0.85 and the rest
calculate_thermal_stress(self) ==
    LET t == self.temperature_celsius
        m == self.max_temperature_celsius
    IN IF t * 10 < m * 7 THEN [num |-> 0, den |-> 3 * m]
       ELSE IF t * 100 < m * 85
       THEN [num |-> (t * 10 - m * 7) * 100, den |-> 3 * m]
       ELSE [num |-> 150 * m + (t * 100 - m * 85) * 10, den |-> 3 * m]

\* MechanicalParameters() with the levels of a call
MechanicalLevels(operating_cycles, vibration_level, noise_level) ==
    [operating_cycles |-> operating_cycles, max_operating_cycles |-> 10000,
     vibration_level_mm_s |-> vibration_level, max_vibration_mm_s |-> 10,
     noise_level_db |-> noise_level, max_noise_db |-> 85]

\* calculate_mechanical_wear: min(100, cycle_wear + vibration_wear + noise_wear)
calculate_mechanical_wear(self) ==
    LET noise_range == self.max_noise_db - 60
        den == self.max_operating_cycles * self.max_vibration_mm_s * noise_range
        cycle_wear ==
            self.operating_cycles * 50 * self.max_vibration_mm_s * noise_range
        vibration_wear ==
            self.vibration_level_mm_s * 30 * self.max_operating_cycles * noise_range
        noise_wear ==
            Max2(0, self.noise_level_db - 60) * 20
                * self.max_operating_cycles * self.max_vibration_mm_s
    IN [num |-> Min2(100 * den, cycle_wear + vibration_wear + noise_wear),
        den |-> den]

\* temperatures below, inside and above the rated range
TemperatureInputs ==
    {0 - 400, 0, 250, 594, 595, 700, 722, 723, 850, 851, 1000, MaxTemperature}
MaxTemperatureInputs == {850, 1050}
CycleInputs == {0, 1, 5000, 10000, 10001, MaxOperatingCycles}
VibrationInputs == {0, 1, 10, MaxVibration}
NoiseInputs == {40, 60, 85, MaxNoise}

InitWear ==
    /\ wear_call = [called |-> "none", value |-> [num |-> 0, den |-> 1]]
    /\ InjectorUnused /\ AiUnused /\ BandsUnused /\ BackendUnused
    /\ HealthUnused /\ DetectionUnused /\ ScheduleUnused /\ AssetsUnused
    /\ BreakerUnused /\ ScalingUnused

Call_calculate_thermal_stress ==
    \E t \in TemperatureInputs, m \in MaxTemperatureInputs :
        LET self == [temperature_celsius |-> t, max_temperature_celsius |-> m]
        IN /\ wear_call' = [called |-> "calculate_thermal_stress", self |-> self,
                            value |-> calculate_thermal_stress(self)]
           /\ UNCHANGED outsideWear

Call_calculate_mechanical_wear ==
    \E c \in CycleInputs, v \in VibrationInputs, n \in NoiseInputs :
        LET self == MechanicalLevels(c, v, n)
        IN /\ wear_call' = [called |-> "calculate_mechanical_wear", self |-> self,
                            value |-> calculate_mechanical_wear(self)]
           /\ UNCHANGED outsideWear

NextWear ==
    \/ Call_calculate_thermal_stress
    \/ Call_calculate_mechanical_wear

SpecWear == InitWear /\ [][NextWear]_vars

\* C21: calculate_thermal_stress returns a value in [0,100] for every
\* temperature, temperatures above max_temperature included, and
\* calculate_mechanical_wear returns a value in [0,100] for every
\* operating-cycle count, vibration level and noise level.
C21_StressAndWearInRange ==
    wear_call.called # "none" =>
        /\ 0 <= wear_call.value.num
        /\ wear_call.value.num <= 100 * wear_call.value.den

-----------------------------------------------------------------------------
(* What a type's model is fitted on and what it is handed when scoring     *)
(* (train, _retrain_single_type, detect_anomalies and                      *)
(* predict_health_degradation of src/src/models/ai_ml_models.py)           *)
(* A feature vector is one number; a value handed to a model is the exact  *)
(* fraction num / den.                                                     *)

\* the largest feature value of a training row
MaxFeature == 15

RECURSIVE SumOf(_)
SumOf(X) == IF X = <<>> THEN 0 ELSE Head(X) + SumOf(Tail(X))

RECURSIVE SumOfSquares(_)
SumOfSquares(X) == IF X = <<>> THEN 0 ELSE Head(X) * Head(X) + SumOfSquares(Tail(X))

\* StandardScaler().fit(X): mean_ = sum / n and scale_ = root / n, the
\* population standard deviation; a zero deviation is replaced by 1
StandardScaler_fit(X) ==
    LET n == Len(X)
        spread == n * SumOfSquares(X) - SumOf(X) * SumOf(X)
        root == CHOOSE r \in 0..(2 * n * MaxFeature) : r * r = spread
    IN [n |-> n, sum |-> SumOf(X), root |-> IF root = 0 THEN n ELSE root]

\* scaler.transform(x): (x - mean_) / scale_
StandardScaler_transform(scaler, x) ==
    [num |-> scaler.n * x - scaler.sum, den |-> scaler.root]

\* a vector passed on as it is
Unscaled(x) == [num |-> x, den |-> 1]

\* two fractions are the same number
SameValue(a, b) == a.num * b.den = b.num * a.den

\* `model.fit(X)` followed by `scaler = StandardScaler(); scaler.fit(X)`, as
\* train and _retrain_single_type of both classes do: the model is fitted on X
fit_model_and_scaler(X) ==
    [model |-> [fitted_on |-> [k \in 1..Len(X) |-> Unscaled(X[k])]],
     scaler |-> StandardScaler_fit(X)]

\* X_scaled = self.scalers[asset_type].transform(X), which decision_function
\* (detect_anomalies) and predict (predict_health_degradation) then receive
model_input_when_scoring(fitted, x) == StandardScaler_transform(fitted.scaler, x)

\* the four places that fit a type's model and the two that score with it
FitPlaces ==
    {"SubstationAnomalyDetector.train", "SubstationAnomalyDetector._retrain_single_type",
     "SubstationPredictiveModel.train", "SubstationPredictiveModel._retrain_single_type"}
ScoringPlaces == {"detect_anomalies", "predict_health_degradation"}

\* training rows with mean m and standard deviation s
Means == {0, 3, 10}
SpreadInputs == {0, 1, 2, 5}
TrainingSets == {<<m - s, m + s>> : m \in Means, s \in SpreadInputs}

InitScaling ==
    /\ scaling = [pc |-> "new"]
    /\ InjectorUnused /\ AiUnused /\ BandsUnused /\ BackendUnused
    /\ HealthUnused /\ DetectionUnused /\ ScheduleUnused /\ AssetsUnused
    /\ WearUnused /\ BreakerUnused

\* a type's model and scaler are fitted
Call_fit ==
    \E place \in FitPlaces, X \in TrainingSets :
        /\ scaling' = [pc |-> "fitted", place |-> place, X |-> X,
                       fitted |-> fit_model_and_scaler(X)]
        /\ UNCHANGED outsideScaling

\* a row of the training data is scored with the type's model
Call_score ==
    /\ scaling.pc = "fitted"
    /\ \E by \in ScoringPlaces, k \in 1..Len(scaling.X) :
          scaling' = [pc |-> "scored", place |-> scaling.place, X |-> scaling.X,
                      fitted |-> scaling.fitted, by |-> by, row |-> k,
                      handed |-> model_input_when_scoring(scaling.fitted, scaling.X[k])]
    /\ UNCHANGED outsideScaling

NextScaling ==
    \/ Call_fit
    \/ Call_score

SpecScaling == InitScaling /\ [][NextScaling]_vars

\* C27: the feature vector handed to a type's model when scoring is in the
\* same representation as the vectors the model was fitted on in train and
\* _retrain_single_type, both scaled or both unscaled: a row of the training
\* data reaches the model, when scored, as the value the model was fitted on.
C27_SameRepresentation ==
    scaling.pc = "scored" =>
        SameValue(scaling.handed, scaling.fitted.model.fitted_on[scaling.row])

-----------------------------------------------------------------------------
(* CircuitBreaker.operate (src/src/models/asset_models.py, lines 329-384)  *)

\* calls of operate in one behaviour
MaxOperations == 4

InitialTotalOperations == 1250
InitialOperationsSinceMaintenance == 250

\* CircuitBreaker.__init__: the fields operate reads and writes
CircuitBreaker ==
    [position |-> "closed", spring_charge_status |-> TRUE, close_coil_healthy |-> TRUE,
     operating_cycles |-> 0, total_operations |-> InitialTotalOperations,
     operations_since_maintenance |-> InitialOperationsSinceMaintenance]

\* the three counters go up by one
Operated(self, position) ==
    [self EXCEPT !.position = position,
                 !.operating_cycles = @ + 1,
                 !.total_operations = @ + 1,
                 !.operations_since_maintenance = @ + 1]

\* operate that opens without looking at the spring
operate_ignoring_spring(self, command) ==
    IF command = "open" /\ self.position = "closed"
    THEN [self |-> Operated(self, "open"), success |-> TRUE]
    ELSE IF command = "close" /\ self.position = "open"
    THEN IF self.close_coil_healthy
         THEN [self |-> Operated(self, "closed"), success |-> TRUE]
         ELSE [self |-> self, success |-> FALSE]
    ELSE [self |-> self, success |-> FALSE]

\* CircuitBreaker.operate: the object it leaves and the flag it returns
operate(self, command) ==
    IF command = "open" /\ self.position = "closed"
    THEN IF self.spring_charge_status
         THEN [self |-> Operated(self, "open"), success |-> TRUE]
         ELSE [self |-> self, success |-> FALSE]       \* "Spring not charged"
    ELSE IF command = "close" /\ self.position = "open"
    THEN IF self.close_coil_healthy
         THEN [self |-> Operated(self, "closed"), success |-> TRUE]
         ELSE [self |-> self, success |-> FALSE]       \* "Close coil faulty"
    ELSE [self |-> self, success |-> FALSE]            \* "Invalid operation"

\* the commands callers send: the two the breaker knows and one it does not
Commands == {"open", "close", "trip"}

InitBreaker ==
    /\ breaker = [self |-> CircuitBreaker, calls |-> 0, command |-> "", success |-> FALSE]
    /\ InjectorUnused /\ AiUnused /\ BandsUnused /\ BackendUnused
    /\ HealthUnused /\ DetectionUnused /\ ScheduleUnused /\ AssetsUnused
    /\ WearUnused /\ ScalingUnused

\* breaker.operate(command)
Call_operate ==
    /\ breaker.calls < MaxOperations
    /\ \E command \in Commands :
          LET r == operate(breaker.self, command)
          IN breaker' = [self |-> r.self, calls |-> breaker.calls + 1,
                         command |-> command, success |-> r.success]
    /\ UNCHANGED outsideBreaker

\* the spring discharges or is recharged, the close coil fails or is repaired:
\* mechanical.spring_charge_status and close_coil_healthy are plain attributes
Set_status ==
    /\ \E spring \in BOOLEAN, coil \in BOOLEAN :
          breaker' = [breaker EXCEPT !.self.spring_charge_status = spring,
                                     !.self.close_coil_healthy = coil]
    /\ UNCHANGED outsideBreaker

NextBreaker ==
    \/ Call_operate
    \/ Set_status

SpecBreaker == InitBreaker /\ [][NextBreaker]_vars

Counters(self) ==
    <<self.operating_cycles, self.total_operations, self.operations_since_maintenance>>

\* what one call of operate did, by the flag it returned
OperateStep ==
    breaker'.calls = breaker.calls + 1 =>
        LET old == breaker.self
            new == breaker'.self
        IN IF breaker'.success
           THEN /\ \/ /\ breaker'.command = "open" /\ old.position = "closed"
                      /\ old.spring_charge_status /\ new.position = "open"
                   \/ /\ breaker'.command = "close" /\ old.position = "open"
                      /\ old.close_coil_healthy /\ new.position = "closed"
                /\ Counters(new) = <<old.operating_cycles + 1, old.total_operations + 1,
                                     old.operations_since_maintenance + 1>>
           ELSE /\ new = old
                /\ \/ breaker'.command = "open" /\ old.position = "closed"
                      /\ ~old.spring_charge_status
                   \/ breaker'.command = "close" /\ old.position = "open"
                      /\ ~old.close_coil_healthy
                   \/ breaker'.command = "open" /\ old.position # "closed"
                   \/ breaker'.command = "close" /\ old.position # "open"
                   \/ breaker'.command \notin {"open", "close"}

\* C30: over any sequence of commands and any spring-charge and close-coil
\* status, position is always 'open' or 'closed'; 'open' succeeds only from
\* 'closed' with the spring charged and 'close' only from 'open' with a healthy
\* close coil; a call that returns failure leaves position and the three
\* counters unchanged; a call that returns success toggles position and
\* increments each of the three counters by exactly 1.
C30_OperateIsGuarded ==
    [][OperateStep]_vars /\ [](breaker.self.position \in {"open", "closed"})

\* the breaker was opened and closed again, with a failed call in between
C30_Witness ==
    /\ breaker.calls >= 3
    /\ breaker.command = "close"
    /\ breaker.success
    /\ breaker.self.position = "closed"
    /\ breaker.self.total_operations = InitialTotalOperations + 2

====
